---- MODULE Spec2Model ----
(***************************************************************************)
(* Model of the trending-topic pipeline of                                 *)
(* src/trending/scripts/news_generator.py                                  *)
(* (class EnhancedTrendingNewsGenerator): title normalization, the daily   *)
(* topic ledger (daily_topics.json) and the tiered topic selection of      *)
(* get_trending_topics.                                                    *)
(*                                                                         *)
(* Strings are sequences of one-character strings, so that lower(),        *)
(* strip(), the regular expressions and the sort of normalize_title are    *)
(* computed character by character, as the code computes them.             *)
(***************************************************************************)
EXTENDS Integers, Sequences, FiniteSets, TLC

\* ------------------------------------------------------------------------
\* Characters and the str / re primitives normalize_title uses
\* ------------------------------------------------------------------------

\* The characters of the model, in code point order (Python compares
\* strings by code point).
CodePoints ==
  <<" ", ",", "-", ".",
    "0", "1", "2", "3", "4", "5", "6", "7", "8", "9", ":",
    "A", "B", "C", "D", "E", "F", "G", "H", "I", "J", "K", "L", "M",
    "N", "O", "P", "Q", "R", "S", "T", "U", "V", "W", "X", "Y", "Z", "_",
    "a", "b", "c", "d", "e", "f", "g", "h", "i", "j", "k", "l", "m",
    "n", "o", "p", "q", "r", "s", "t", "u", "v", "w", "x", "y", "z">>

Ord(c) == CHOOSE i \in DOMAIN CodePoints : CodePoints[i] = c

UpperCase == {CodePoints[i] : i \in 16..41}
LowerCase == {CodePoints[i] : i \in 43..68}
Digits == {CodePoints[i] : i \in 5..14}

\* re: \s
IsSpace(c) == c = " "

\* re: \w
IsWordChar(c) == c \in UpperCase \cup LowerCase \cup Digits \cup {"_"}

\* str.lower()
str_lower(s) ==
  [i \in DOMAIN s |->
     IF s[i] \in UpperCase THEN CodePoints[Ord(s[i]) + 27] ELSE s[i]]

\* Number of whitespace characters at the start of s.
LeadingSpaces(s) ==
  IF \A i \in DOMAIN s : IsSpace(s[i])
  THEN Len(s)
  ELSE (CHOOSE i \in DOMAIN s :
          /\ ~IsSpace(s[i])
          /\ \A j \in 1..(i - 1) : IsSpace(s[j])) - 1

\* Number of whitespace characters at the end of s.
TrailingSpaces(s) ==
  IF \A i \in DOMAIN s : IsSpace(s[i])
  THEN Len(s)
  ELSE Len(s) - (CHOOSE i \in DOMAIN s :
                   /\ ~IsSpace(s[i])
                   /\ \A j \in (i + 1)..Len(s) : IsSpace(s[j]))

\* str.strip()
str_strip(s) ==
  IF LeadingSpaces(s) = Len(s)
  THEN << >>
  ELSE SubSeq(s, LeadingSpaces(s) + 1, Len(s) - TrailingSpaces(s))

StartsWith(s, p) ==
  /\ Len(p) <= Len(s)
  /\ \A i \in DOMAIN p : s[i] = p[i]

Drop(s, n) == SubSeq(s, n + 1, Len(s))

\* re.sub(r'^<label>:?\s*', '', s): the label at the very start of s, an
\* optional colon after it and all whitespace after that are removed.
re_sub_prefix(label, s) ==
  IF ~StartsWith(s, label)
  THEN s
  ELSE LET a == Drop(s, Len(label))
           b == IF Len(a) > 0 /\ a[1] = ":" THEN Drop(a, 1) ELSE a
       IN  Drop(b, LeadingSpaces(b))

\* re.sub(r'[^\w\s]', '', s)
re_sub_punctuation(s) ==
  SelectSeq(s, LAMBDA c : IsWordChar(c) \/ IsSpace(c))

\* re.sub(r'\s+', ' ', s): every run of whitespace becomes one space.
RECURSIVE re_sub_spaces(_)
re_sub_spaces(s) ==
  IF s = << >>
  THEN << >>
  ELSE IF IsSpace(s[1])
       THEN <<" ">> \o re_sub_spaces(Drop(s, LeadingSpaces(s)))
       ELSE <<s[1]>> \o re_sub_spaces(Drop(s, 1))

\* Length of the run of non-whitespace characters at the start of s.
RECURSIVE WordLen(_)
WordLen(s) ==
  IF s = << >> \/ IsSpace(s[1]) THEN 0 ELSE 1 + WordLen(Drop(s, 1))

\* str.split(): the maximal runs of non-whitespace characters, in order.
RECURSIVE str_split(_)
str_split(s) ==
  LET t == Drop(s, LeadingSpaces(s))
  IN  IF t = << >>
      THEN << >>
      ELSE <<SubSeq(t, 1, WordLen(t))>> \o str_split(Drop(t, WordLen(t)))

\* ' '.join(words)
RECURSIVE str_join(_)
str_join(words) ==
  IF words = << >>
  THEN << >>
  ELSE IF Len(words) = 1
       THEN words[1]
       ELSE words[1] \o <<" ">> \o str_join(Tail(words))

\* a < b for Python strings: lexicographic by code point, a proper prefix
\* first.
StrLess(a, b) ==
  \E i \in 1..Len(b) :
    /\ i <= Len(a) + 1
    /\ \A j \in 1..(i - 1) : a[j] = b[j]
    /\ \/ i = Len(a) + 1
       \/ Ord(a[i]) < Ord(b[i])

\* ------------------------------------------------------------------------
\* normalize_title
\* ------------------------------------------------------------------------

\* prefixes_to_remove, in the order of the list
prefixes_to_remove ==
  << <<"b","r","e","a","k","i","n","g">>,
     <<"u","p","d","a","t","e">>,
     <<"n","e","w","s">>,
     <<"t","r","e","n","d","i","n","g">>,
     <<"l","i","v","e">>,
     <<"u","r","g","e","n","t">> >>

stop_words ==
  { <<"t","h","e">>, <<"a">>, <<"a","n">>, <<"a","n","d">>, <<"o","r">>,
    <<"b","u","t">>, <<"i","n">>, <<"o","n">>, <<"a","t">>, <<"t","o">>,
    <<"f","o","r">>, <<"o","f">>, <<"w","i","t","h">>, <<"b","y">>,
    <<"t","o","d","a","y">>, <<"y","e","s","t","e","r","d","a","y">>,
    <<"n","o","w">>, <<"n","e","w">>, <<"l","a","t","e","s","t">>,
    <<"m","a","j","o","r">> }

\* for prefix in prefixes_to_remove: normalized = re.sub(prefix, '', normalized)
\* Each pattern is applied once, in list order, to the result of the one
\* before it.
RECURSIVE RemovePrefixes(_, _)
RemovePrefixes(prefixes, s) ==
  IF prefixes = << >>
  THEN s
  ELSE RemovePrefixes(Tail(prefixes), re_sub_prefix(Head(prefixes), s))

\* normalize_title without filtered_words.sort(): the words stay in the
\* order of the title.
normalize_title_unsorted(title) ==
  LET lowered == str_strip(str_lower(title))
      unprefixed == RemovePrefixes(prefixes_to_remove, lowered)
      unpunctuated == re_sub_punctuation(unprefixed)
      collapsed == str_strip(re_sub_spaces(unpunctuated))
      words == str_split(collapsed)
  IN  str_join(SelectSeq(words, LAMBDA w : w \notin stop_words))

normalize_title(title) ==
  LET lowered == str_strip(str_lower(title))
      unprefixed == RemovePrefixes(prefixes_to_remove, lowered)
      unpunctuated == re_sub_punctuation(unprefixed)
      collapsed == str_strip(re_sub_spaces(unpunctuated))
      words == str_split(collapsed)
      filtered_words == SelectSeq(words, LAMBDA w : w \notin stop_words)
  IN  str_join(SortSeq(filtered_words, StrLess))

\* ------------------------------------------------------------------------
\* Titles
\* ------------------------------------------------------------------------

\* Titles that the feeds of the model carry. The first two differ by a
\* leading label and a trailing filler word only.
title_breaking == <<"B","r","e","a","k","i","n","g",":"," ","X"," ","r","e","p","o","r","t","s"," ","Y">>
title_today == <<"X"," ","r","e","p","o","r","t","s"," ","Y"," ","t","o","d","a","y">>
title_other == <<"Z","e","b","r","a"," ","e","s","c","a","p","e","s"," ","c","i","t","y"," ","z","o","o">>

TitlePool == {title_breaking, title_today, title_other}

\* test_normalize_title: the titles of test_cases, word by word, and the
\* result the test expects for each.
test_cases ==
  <<
     (* Breaking: Major Tech Company Reports Strong Earnings *)
     [original |->
        << <<"B","r","e","a","k","i","n","g",":">>,
           <<"M","a","j","o","r">>,
           <<"T","e","c","h">>,
           <<"C","o","m","p","a","n","y">>,
           <<"R","e","p","o","r","t","s">>,
           <<"S","t","r","o","n","g">>,
           <<"E","a","r","n","i","n","g","s">> >>,
      expected |->
        <<"m","a","j","o","r"," ","t","e","c","h"," ","c","o","m","p","a","n","y"," ","r","e","p","o","r","t","s"," ","s","t","r","o","n","g"," ","e","a","r","n","i","n","g","s">>],
     (* Update: Tech Company Reports Strong Earnings Today *)
     [original |->
        << <<"U","p","d","a","t","e",":">>,
           <<"T","e","c","h">>,
           <<"C","o","m","p","a","n","y">>,
           <<"R","e","p","o","r","t","s">>,
           <<"S","t","r","o","n","g">>,
           <<"E","a","r","n","i","n","g","s">>,
           <<"T","o","d","a","y">> >>,
      expected |->
        <<"t","e","c","h"," ","c","o","m","p","a","n","y"," ","r","e","p","o","r","t","s"," ","s","t","r","o","n","g"," ","e","a","r","n","i","n","g","s"," ","t","o","d","a","y">>],
     (* Tech Company Reports Strong Q4 Earnings *)
     [original |->
        << <<"T","e","c","h">>,
           <<"C","o","m","p","a","n","y">>,
           <<"R","e","p","o","r","t","s">>,
           <<"S","t","r","o","n","g">>,
           <<"Q","4">>,
           <<"E","a","r","n","i","n","g","s">> >>,
      expected |->
        <<"t","e","c","h"," ","c","o","m","p","a","n","y"," ","r","e","p","o","r","t","s"," ","s","t","r","o","n","g"," ","q","4"," ","e","a","r","n","i","n","g","s">>],
     (* BREAKING NEWS: Government Announces New Policy *)
     [original |->
        << <<"B","R","E","A","K","I","N","G">>,
           <<"N","E","W","S",":">>,
           <<"G","o","v","e","r","n","m","e","n","t">>,
           <<"A","n","n","o","u","n","c","e","s">>,
           <<"N","e","w">>,
           <<"P","o","l","i","c","y">> >>,
      expected |->
        <<"g","o","v","e","r","n","m","e","n","t"," ","a","n","n","o","u","n","c","e","s"," ","n","e","w"," ","p","o","l","i","c","y">>],
     (* Government Announces New Policy Changes *)
     [original |->
        << <<"G","o","v","e","r","n","m","e","n","t">>,
           <<"A","n","n","o","u","n","c","e","s">>,
           <<"N","e","w">>,
           <<"P","o","l","i","c","y">>,
           <<"C","h","a","n","g","e","s">> >>,
      expected |->
        <<"g","o","v","e","r","n","m","e","n","t"," ","a","n","n","o","u","n","c","e","s"," ","n","e","w"," ","p","o","l","i","c","y"," ","c","h","a","n","g","e","s">>],
     (* Live: Climate Summit Updates *)
     [original |->
        << <<"L","i","v","e",":">>,
           <<"C","l","i","m","a","t","e">>,
           <<"S","u","m","m","i","t">>,
           <<"U","p","d","a","t","e","s">> >>,
      expected |->
        <<"c","l","i","m","a","t","e"," ","s","u","m","m","i","t"," ","u","p","d","a","t","e","s">>],
     (* Trending: Climate Summit Latest News *)
     [original |->
        << <<"T","r","e","n","d","i","n","g",":">>,
           <<"C","l","i","m","a","t","e">>,
           <<"S","u","m","m","i","t">>,
           <<"L","a","t","e","s","t">>,
           <<"N","e","w","s">> >>,
      expected |->
        <<"c","l","i","m","a","t","e"," ","s","u","m","m","i","t"," ","l","a","t","e","s","t"," ","n","e","w","s">>] >>

\* get_fallback_topics: the titles of all_fallback_topics, in list order
all_fallback_topics ==
  << (* Tech Companies Report Strong Q4 Earnings Despite Market Volatility *)
     <<"T","e","c","h"," ","C","o","m","p","a","n","i","e","s"," ","R","e","p","o","r","t"," ","S","t","r","o","n","g"," ","Q","4"," ","E","a","r","n","i","n","g","s"," ","D","e","s","p","i","t","e"," ","M","a","r","k","e","t"," ","V","o","l","a","t","i","l","i","t","y">>,
     (* New Climate Policy Announced at International Summit *)
     <<"N","e","w"," ","C","l","i","m","a","t","e"," ","P","o","l","i","c","y"," ","A","n","n","o","u","n","c","e","d"," ","a","t"," ","I","n","t","e","r","n","a","t","i","o","n","a","l"," ","S","u","m","m","i","t">>,
     (* NASA Announces Major Discovery in Mars Exploration Mission *)
     <<"N","A","S","A"," ","A","n","n","o","u","n","c","e","s"," ","M","a","j","o","r"," ","D","i","s","c","o","v","e","r","y"," ","i","n"," ","M","a","r","s"," ","E","x","p","l","o","r","a","t","i","o","n"," ","M","i","s","s","i","o","n">>,
     (* Global Markets React to Federal Reserve Interest Rate Decision *)
     <<"G","l","o","b","a","l"," ","M","a","r","k","e","t","s"," ","R","e","a","c","t"," ","t","o"," ","F","e","d","e","r","a","l"," ","R","e","s","e","r","v","e"," ","I","n","t","e","r","e","s","t"," ","R","a","t","e"," ","D","e","c","i","s","i","o","n">>,
     (* Breakthrough in Cancer Treatment Shows Promising Results in Trials *)
     <<"B","r","e","a","k","t","h","r","o","u","g","h"," ","i","n"," ","C","a","n","c","e","r"," ","T","r","e","a","t","m","e","n","t"," ","S","h","o","w","s"," ","P","r","o","m","i","s","i","n","g"," ","R","e","s","u","l","t","s"," ","i","n"," ","T","r","i","a","l","s">>,
     (* Major Data Breach Affects Millions of Users Worldwide *)
     <<"M","a","j","o","r"," ","D","a","t","a"," ","B","r","e","a","c","h"," ","A","f","f","e","c","t","s"," ","M","i","l","l","i","o","n","s"," ","o","f"," ","U","s","e","r","s"," ","W","o","r","l","d","w","i","d","e">>,
     (* Renewable Energy Reaches New Milestone in Global Adoption *)
     <<"R","e","n","e","w","a","b","l","e"," ","E","n","e","r","g","y"," ","R","e","a","c","h","e","s"," ","N","e","w"," ","M","i","l","e","s","t","o","n","e"," ","i","n"," ","G","l","o","b","a","l"," ","A","d","o","p","t","i","o","n">>,
     (* Electric Vehicle Sales Surge as New Models Hit Market *)
     <<"E","l","e","c","t","r","i","c"," ","V","e","h","i","c","l","e"," ","S","a","l","e","s"," ","S","u","r","g","e"," ","a","s"," ","N","e","w"," ","M","o","d","e","l","s"," ","H","i","t"," ","M","a","r","k","e","t">>,
     (* AI Technology Breakthrough Revolutionizes Healthcare Industry *)
     <<"A","I"," ","T","e","c","h","n","o","l","o","g","y"," ","B","r","e","a","k","t","h","r","o","u","g","h"," ","R","e","v","o","l","u","t","i","o","n","i","z","e","s"," ","H","e","a","l","t","h","c","a","r","e"," ","I","n","d","u","s","t","r","y">>,
     (* International Trade Agreement Reached After Months of Negotiations *)
     <<"I","n","t","e","r","n","a","t","i","o","n","a","l"," ","T","r","a","d","e"," ","A","g","r","e","e","m","e","n","t"," ","R","e","a","c","h","e","d"," ","A","f","t","e","r"," ","M","o","n","t","h","s"," ","o","f"," ","N","e","g","o","t","i","a","t","i","o","n","s">>,
     (* Major Archaeological Discovery Rewrites Ancient History *)
     <<"M","a","j","o","r"," ","A","r","c","h","a","e","o","l","o","g","i","c","a","l"," ","D","i","s","c","o","v","e","r","y"," ","R","e","w","r","i","t","e","s"," ","A","n","c","i","e","n","t"," ","H","i","s","t","o","r","y">>,
     (* Quantum Computing Milestone Achieved by Research Team *)
     <<"Q","u","a","n","t","u","m"," ","C","o","m","p","u","t","i","n","g"," ","M","i","l","e","s","t","o","n","e"," ","A","c","h","i","e","v","e","d"," ","b","y"," ","R","e","s","e","a","r","c","h"," ","T","e","a","m">> >>

\* datetime.now().strftime("%B %d, %Y") on day d of the model
date_str_of(d) ==
  <<"M","a","r","c","h"," ","0", CodePoints[5 + d], ",", " ", "2","0","2","5">>

\* create_emergency_topics: emergency_templates, in list order
emergency_templates(date_str) ==
  << (* Breaking: Major Development in Global Markets on {date_str} *)
     <<"B","r","e","a","k","i","n","g",":"," ","M","a","j","o","r"," ","D","e","v","e","l","o","p","m","e","n","t"," ","i","n"," ","G","l","o","b","a","l"," ","M","a","r","k","e","t","s"," ","o","n"," ">> \o date_str,
     (* Technology Sector Update: Key Changes Announced {date_str} *)
     <<"T","e","c","h","n","o","l","o","g","y"," ","S","e","c","t","o","r"," ","U","p","d","a","t","e",":"," ","K","e","y"," ","C","h","a","n","g","e","s"," ","A","n","n","o","u","n","c","e","d"," ">> \o date_str,
     (* Healthcare Breakthrough Reported This Week - {date_str} *)
     <<"H","e","a","l","t","h","c","a","r","e"," ","B","r","e","a","k","t","h","r","o","u","g","h"," ","R","e","p","o","r","t","e","d"," ","T","h","i","s"," ","W","e","e","k"," ","-"," ">> \o date_str,
     (* Environmental Policy Changes Take Effect {date_str} *)
     <<"E","n","v","i","r","o","n","m","e","n","t","a","l"," ","P","o","l","i","c","y"," ","C","h","a","n","g","e","s"," ","T","a","k","e"," ","E","f","f","e","c","t"," ">> \o date_str,
     (* Financial Markets Analysis: Weekly Report {date_str} *)
     <<"F","i","n","a","n","c","i","a","l"," ","M","a","r","k","e","t","s"," ","A","n","a","l","y","s","i","s",":"," ","W","e","e","k","l","y"," ","R","e","p","o","r","t"," ">> \o date_str,
     (* Scientific Research Update: New Findings {date_str} *)
     <<"S","c","i","e","n","t","i","f","i","c"," ","R","e","s","e","a","r","c","h"," ","U","p","d","a","t","e",":"," ","N","e","w"," ","F","i","n","d","i","n","g","s"," ">> \o date_str,
     (* International Relations: Latest Developments {date_str} *)
     <<"I","n","t","e","r","n","a","t","i","o","n","a","l"," ","R","e","l","a","t","i","o","n","s",":"," ","L","a","t","e","s","t"," ","D","e","v","e","l","o","p","m","e","n","t","s"," ">> \o date_str,
     (* Energy Sector News: Market Changes {date_str} *)
     <<"E","n","e","r","g","y"," ","S","e","c","t","o","r"," ","N","e","w","s",":"," ","M","a","r","k","e","t"," ","C","h","a","n","g","e","s"," ">> \o date_str,
     (* Education System Updates: Policy Changes {date_str} *)
     <<"E","d","u","c","a","t","i","o","n"," ","S","y","s","t","e","m"," ","U","p","d","a","t","e","s",":"," ","P","o","l","i","c","y"," ","C","h","a","n","g","e","s"," ">> \o date_str,
     (* Transportation Industry: New Announcements {date_str} *)
     <<"T","r","a","n","s","p","o","r","t","a","t","i","o","n"," ","I","n","d","u","s","t","r","y",":"," ","N","e","w"," ","A","n","n","o","u","n","c","e","m","e","n","t","s"," ">> \o date_str >>

\* ------------------------------------------------------------------------
\* Bounds and program constants
\* ------------------------------------------------------------------------

\* Calendar days of the model.
MaxDay == 2

\* Entries one feed delivers at most.
MaxEntries == 1

\* Words of a title given to normalize_title in SpecNormalize.
MaxWords == 3

\* Bound: the number of urls a search yields in the model (the code takes
\* at most NumResults of them).
MaxUrls == 2

\* Bound: the draws of random.sample that are followed, for each call of
\* expand_paragraph.
MaxSamples == 2

\* run_hourly_generation: num_topics = 3
NumTopics == 3

\* get_google_trends_rss: len(trends_feeds)
NumTrendsFeeds == 2

\* get_news_trending_topics: len(news_feeds)
NumNewsFeeds == 5

\* get_news_trending_topics: feed.entries[:2]
NewsEntriesPerFeed == 2

\* get_reddit_trending: len(reddit_urls)
NumRedditUrls == 2

\* get_reddit_trending: posts[:5]
RedditPostsPerUrl == 5

\* get_expanded_news_topics: len(additional_feeds)
NumAdditionalFeeds == 10

\* get_expanded_news_topics: feed.entries[:10]
ExpandedEntriesPerFeed == 10

\* get_expanded_news_topics: len(title) > 10
MinTitleLen == 10

\* ------------------------------------------------------------------------
\* Sequence helpers
\* ------------------------------------------------------------------------

\* s[:n]
Take(s, n) == SubSeq(s, 1, IF n < Len(s) THEN n ELSE Len(s))

Range(s) == {s[i] : i \in DOMAIN s}

\* All sequences over S of length at most n.
SeqsUpTo(S, n) == UNION {[1..k -> S] : k \in 0..n}

\* ------------------------------------------------------------------------
\* Topics and their keys
\* ------------------------------------------------------------------------

\* A topic dict; only its 'title' takes part in selection.
Topic(t) == [title |-> t]

AllTitles ==
  TitlePool \cup Range(all_fallback_topics)
    \cup UNION {Range(emergency_templates(date_str_of(d))) : d \in 1..MaxDay}

\* normalize_title over the titles of the model, tabulated once.
NormalizedKeys == [t \in AllTitles |-> normalize_title(t)]

\* self.normalize_title(topic['title'])
KeyOf(topic) == NormalizedKeys[topic.title]

\* [self.normalize_title(topic['title']) for topic in topics], as a set
KeysOf(topics) == {KeyOf(topics[i]) : i \in DOMAIN topics}

\* ------------------------------------------------------------------------
\* The ledger file daily_topics.json
\* ------------------------------------------------------------------------

\* The file holds a record {date, topics}, or is in one of the states in
\* which no record can be read from it:
\*   missing       the file does not exist
\*   unreadable    it exists and opening or reading it raises (permissions,
\*                 bytes that are not UTF-8)
\*   invalid_json  its text is not JSON (also a truncated write)
\*   not_object    its text is JSON, but not an object (a list, null, ...)
\* A record with date 0 is a JSON object without a 'date'.
NoRecord(state) == [state |-> state, date |-> 0, topics |-> {}]

Record(date, topics) == [state |-> "record", date |-> date, topics |-> topics]

FileFaults == {"missing", "unreadable", "invalid_json", "not_object"}

\* load_daily_topics: the set it returns, and whether it raises instead.
\* except (json.JSONDecodeError, FileNotFoundError) catches neither the
\* OSError of an unreadable file nor the AttributeError of data.get on a
\* value that is not a dict.
load_raises(file) == file.state \in {"unreadable", "not_object"}

\* load_daily_topics without the test of the date.
load_daily_topics_any_date(file, day) ==
  IF file.state = "record" THEN file.topics ELSE {}

load_daily_topics(file, day) ==
  IF file.state = "record" /\ file.date = day THEN file.topics ELSE {}

\* save_daily_topics: what the file holds after
\*   with open(self.daily_topics_file, 'w') as f: json.dump(data, f)
\* The outcome of the write is "ok", "open_fails" (open raises, the file is
\* untouched) or "dump_fails" (open has truncated the file and the write
\* raises: the file is left with text that is not JSON).
WriteOutcomes == {"ok", "open_fails", "dump_fails"}

\* save_daily_topics without the merge: the write stores the new keys only.
save_daily_topics_overwriting(file, day, topics, outcome) ==
  CASE outcome = "ok" -> Record(day, topics)
    [] outcome = "open_fails" -> file
    [] outcome = "dump_fails" -> NoRecord("invalid_json")

save_daily_topics(file, day, topics, outcome) ==
  LET existing_topics == load_daily_topics(file, day)
      all_topics == existing_topics \cup topics
  IN  CASE outcome = "ok" -> Record(day, all_topics)
        [] outcome = "open_fails" -> file
        [] outcome = "dump_fails" -> NoRecord("invalid_json")

\* save_daily_topics: except Exception as e: print(Warning ...). The error
\* of the write is caught and never reaches the caller.
save_raises_uncaught(outcome) == outcome # "ok"

save_raises(outcome) == FALSE

\* ------------------------------------------------------------------------
\* The tiers of get_trending_topics
\* ------------------------------------------------------------------------

\* What one fetch of a feed gives: nothing (no HTTP 200), or the titles of
\* its entries in feed order; raised says that an exception was raised
\* after these entries (by feedparser.parse itself when there are none, by
\* an entry without a title after the others).
Unavailable == [ok |-> FALSE, raised |-> FALSE, entries |-> << >>]

FeedOutcomes ==
  {Unavailable}
    \cup {[ok |-> TRUE, raised |-> r, entries |-> e] :
            e \in SeqsUpTo(TitlePool, MaxEntries), r \in BOOLEAN}

\* The loop over the entries of one feed, as all three primary tiers run
\* it: an entry is appended when the tier has fewer than limit topics and
\* its key is not in seen_normalized_titles (the keys of the tier's topics).
RECURSIVE AddEntries(_, _, _)
AddEntries(tier, entries, limit) ==
  IF entries = << >>
  THEN tier
  ELSE LET topic == Topic(Head(entries))
       IN  AddEntries(
             IF Len(tier) < limit /\ KeyOf(topic) \notin KeysOf(tier)
             THEN Append(tier, topic)
             ELSE tier,
             Tail(entries), limit)

\* get_google_trends_rss, one feed: feed.entries[:num_topics * 2]. This
\* loop has no test of the count (the limit given here is above what it
\* can reach); the count is cut by topics[:num_topics] at the return.
google_feed(tier, outcome, num_topics) ==
  IF ~outcome.ok
  THEN tier
  ELSE AddEntries(tier, Take(outcome.entries, num_topics * 2),
                  Len(tier) + Len(outcome.entries) + 1)

\* get_news_trending_topics, one feed: feed.entries[:2], while
\* len(topics) < num_topics. An entry older than 7 days is skipped; a feed
\* with such an entry is the feed outcome without it.
news_feed(tier, outcome, num_topics) ==
  IF ~outcome.ok
  THEN tier
  ELSE AddEntries(tier, Take(outcome.entries, NewsEntriesPerFeed), num_topics)

\* get_reddit_trending, one url: posts[:5], while len(topics) < num_topics.
\* A post with score <= 500, a media url or older than 24 hours is skipped;
\* a listing with such a post is the feed outcome without it.
reddit_feed(tier, outcome, num_topics) ==
  IF ~outcome.ok
  THEN tier
  ELSE AddEntries(tier, Take(outcome.entries, RedditPostsPerUrl), num_topics)

\* get_trending_topics, "Remove duplicates": the loop over topics that
\* fills unique_topics and seen_titles.
RECURSIVE RemoveDuplicates(_, _, _, _)
RemoveDuplicates(topics, unique, daily_used, num_topics) ==
  IF topics = << >>
  THEN unique
  ELSE LET topic == Head(topics)
       IN  RemoveDuplicates(
             Tail(topics),
             IF /\ KeyOf(topic) \notin KeysOf(unique)
                /\ KeyOf(topic) \notin daily_used
                /\ Len(unique) < num_topics
             THEN Append(unique, topic)
             ELSE unique,
             daily_used, num_topics)

\* get_expanded_news_topics, one feed: feed.entries[:10]. An entry is
\* checked against daily_used_topics and the caller's seen_titles, not
\* against the topics this function has already taken.
RECURSIVE expanded_feed_entries(_, _, _, _, _)
expanded_feed_entries(additional, entries, num_needed, daily_used, seen) ==
  IF entries = << >> \/ Len(additional) >= num_needed
  THEN additional
  ELSE LET topic == Topic(Head(entries))
       IN  expanded_feed_entries(
             IF /\ KeyOf(topic) \notin daily_used
                /\ KeyOf(topic) \notin seen
                /\ Len(topic.title) > MinTitleLen
             THEN Append(additional, topic)
             ELSE additional,
             Tail(entries), num_needed, daily_used, seen)

expanded_feed(additional, outcome, num_needed, daily_used, seen) ==
  IF ~outcome.ok
  THEN additional
  ELSE expanded_feed_entries(additional, Take(outcome.entries,
                             ExpandedEntriesPerFeed),
                             num_needed, daily_used, seen)

\* get_trending_topics, "Add the new topics": additional topics are
\* appended to unique_topics up to num_topics, without a check.
add_expanded(unique, additional, num_topics) ==
  unique \o Take(additional, IF Len(unique) < num_topics
                             THEN num_topics - Len(unique) ELSE 0)

\* get_fallback_topics: the topics of all_fallback_topics whose key is not
\* in today's ledger, cut to num_topics.
get_fallback_topics(daily_used, num_topics) ==
  LET all == [i \in DOMAIN all_fallback_topics |-> Topic(all_fallback_topics[i])]
      available_topics == SelectSeq(all, LAMBDA t : KeyOf(t) \notin daily_used)
  IN  Take(available_topics, num_topics)

\* get_trending_topics, "Add fallback topics that aren't duplicates"
RECURSIVE add_fallback(_, _, _, _, _)
add_fallback(unique, seen, fallback_topics, daily_used, num_topics) ==
  IF fallback_topics = << >> \/ Len(unique) >= num_topics
  THEN unique
  ELSE LET topic == Head(fallback_topics)
           fresh == KeyOf(topic) \notin seen /\ KeyOf(topic) \notin daily_used
       IN  add_fallback(
             IF fresh THEN Append(unique, topic) ELSE unique,
             IF fresh THEN seen \cup {KeyOf(topic)} ELSE seen,
             Tail(fallback_topics), daily_used, num_topics)

\* create_emergency_topics
RECURSIVE emergency_loop(_, _, _, _)
emergency_loop(emergency_topics, templates, num_topics, daily_used) ==
  IF templates = << >> \/ Len(emergency_topics) >= num_topics
  THEN emergency_topics
  ELSE LET topic == Topic(Head(templates))
       IN  emergency_loop(
             IF /\ KeyOf(topic) \notin daily_used
                /\ KeyOf(topic) \notin KeysOf(emergency_topics)
             THEN Append(emergency_topics, topic)
             ELSE emergency_topics,
             Tail(templates), num_topics, daily_used)

create_emergency_topics(num_topics, daily_used, day) ==
  emergency_loop(<< >>, emergency_templates(date_str_of(day)), num_topics,
                 daily_used)

VARIABLES
  today,              \* the calendar day, datetime.now()
  daily_topics_file,  \* the content of daily_topics.json
  pc,                 \* where run_hourly_generation is
  daily_used_topics,  \* get_trending_topics: the ledger as loaded
  topics,             \* get_trending_topics: topics
  tier_topics,        \* the list a tier function is filling
  feed_index,         \* the feed a tier function fetches next
  unique_topics,      \* get_trending_topics: unique_topics
  seen_titles,        \* get_trending_topics: seen_titles
  final_topics,       \* what get_trending_topics returned
  write_outcome,      \* what became of the write of save_daily_topics
  excepted,           \* get_trending_topics went through its except clause
  new_posts,          \* run_hourly_generation: the titles of new_posts
  calls,              \* run_hourly_generation: the calls it made, in order
  nt_pc,              \* SpecNormalize: which call of normalize_title was made
  nt_words,           \* SpecNormalize: the words of the title
  nt_key,             \* SpecNormalize: normalize_title(title)
  nt_again,           \* SpecNormalize: normalize_title(normalize_title(title))
  nt_variant,         \* SpecNormalize: a rewritten title and its key
  ar_pc,              \* SpecArticle: where the processing of the topic is
  ar_topic,           \* SpecArticle: the topic being processed
  search_results,     \* gather_topic_research: search_results
  result_index,       \* gather_topic_research: the result fetched next
  fetch_outcomes,     \* what became of the fetch of each result
  website_content,    \* research_data['website_content'], in dict order
  lead_section,       \* generate_lead_section: the text of the paragraph
  news_paragraphs,    \* generate_authentic_news_content: paragraphs
  source_cards,       \* create_structured_article: the sources listed
  bf_pc,              \* SpecBackfill: where fetch_all_dates is
  data_file,          \* the date keys stored in on_this_day_data.json
  cached_data,        \* fetch_all_dates: the date keys of cached_data
  total_dates,        \* fetch_all_dates: total_dates
  fetched_count,      \* fetch_all_dates: fetched_count
  failed_dates,       \* fetch_all_dates: failed_dates
  retry_dates,        \* the copy failed_dates[:] still to be retried
  requests,           \* the outcome of each request made for a date
  pb_pc,              \* SpecPublish: where run_hourly_generation is
  now,                \* datetime.now(), in hours
  posts_dir,          \* the documents of posts_dir and their ctime
  index_listing,      \* the set of filenames listed in index.html
  pb_topics,          \* the topics still to be processed
  pb_new_posts,       \* run_hourly_generation: new_posts
  pb_run              \* the number of the run

vars ==
  <<today, daily_topics_file, pc, daily_used_topics, topics, tier_topics,
    feed_index, unique_topics, seen_titles, final_topics, write_outcome,
    excepted, new_posts, calls, nt_pc, nt_words, nt_key, nt_again,
    nt_variant, ar_pc, ar_topic, search_results, result_index,
    fetch_outcomes, website_content, lead_section, news_paragraphs,
    source_cards, bf_pc, data_file, cached_data, total_dates,
    fetched_count, failed_dates, retry_dates, requests, pb_pc, now,
    posts_dir, index_listing, pb_topics, pb_new_posts, pb_run>>

nt_vars == <<nt_pc, nt_words, nt_key, nt_again, nt_variant>>

art_vars ==
  <<ar_pc, ar_topic, search_results, result_index, fetch_outcomes,
    website_content, lead_section, news_paragraphs, source_cards>>

bf_vars ==
  <<bf_pc, data_file, cached_data, total_dates, fetched_count, failed_dates,
    retry_dates, requests>>

pub_vars ==
  <<pb_pc, now, posts_dir, index_listing, pb_topics, pb_new_posts, pb_run>>

main_vars ==
  <<today, daily_topics_file, pc, daily_used_topics, topics, tier_topics,
    feed_index, unique_topics, seen_titles, final_topics, write_outcome,
    excepted, new_posts, calls>>

run_vars ==
  <<daily_used_topics, topics, tier_topics, feed_index, unique_topics,
    seen_titles, final_topics, write_outcome, excepted, new_posts, calls>>

\* ------------------------------------------------------------------------
\* run_hourly_generation and get_trending_topics, step by step
\* ------------------------------------------------------------------------

NoRun ==
  /\ daily_used_topics = {}
  /\ topics = << >>
  /\ tier_topics = << >>
  /\ feed_index = 1
  /\ unique_topics = << >>
  /\ seen_titles = {}
  /\ final_topics = << >>
  /\ write_outcome = "none"
  /\ excepted = FALSE
  /\ new_posts = << >>
  /\ calls = << >>

NoVariant == [kind |-> "none", title |-> << >>, key |-> << >>]

\* No topic is being processed.
NoArticle ==
  /\ ar_pc = "off"
  /\ ar_topic = << >>
  /\ search_results = << >>
  /\ result_index = 1
  /\ fetch_outcomes = << >>
  /\ website_content = << >>
  /\ lead_section = << >>
  /\ news_paragraphs = << >>
  /\ source_cards = << >>

\* fetch_all_dates is not running.
NoBackfill ==
  /\ bf_pc = "off"
  /\ data_file = {}
  /\ cached_data = {}
  /\ total_dates = 0
  /\ fetched_count = 0
  /\ failed_dates = << >>
  /\ retry_dates = << >>
  /\ requests = << >>

\* The posts directory is not looked at.
NoPublish ==
  /\ pb_pc = "off"
  /\ now = 0
  /\ posts_dir = {}
  /\ index_listing = {}
  /\ pb_topics = << >>
  /\ pb_new_posts = << >>
  /\ pb_run = 0

\* One call made by run_hourly_generation: the processing of a topic (the
\* body of its try; raised when it ended in the except clause) or one of
\* update_index_html and update_site_metadata.
Call(op, title, raised) == [op |-> op, title |-> title, raised |-> raised]

StartOfDayOne ==
  /\ today = 1
  /\ daily_topics_file = NoRecord("missing")
  /\ pc = "idle"
  /\ NoRun

Init ==
  /\ StartOfDayOne
  /\ nt_pc = "off"
  /\ nt_words = << >>
  /\ nt_key = << >>
  /\ nt_again = << >>
  /\ nt_variant = NoVariant
  /\ NoArticle
  /\ NoBackfill
  /\ NoPublish

\* The locals of get_trending_topics that are dead once it has left its
\* try body.
DropLocals ==
  /\ topics' = << >>
  /\ tier_topics' = << >>
  /\ feed_index' = 1
  /\ unique_topics' = << >>
  /\ seen_titles' = {}

\* The statement at which the try body of get_trending_topics raised: the
\* except clause takes over.
ToExcept ==
  /\ pc' = "except"
  /\ excepted' = TRUE
  /\ DropLocals

\* run_hourly_generation calls get_trending_topics(num_topics), which
\* loads today's ledger first.
begin_run ==
  /\ pc = "idle"
  /\ IF load_raises(daily_topics_file)
     THEN /\ ToExcept
          /\ UNCHANGED daily_used_topics
     ELSE /\ pc' = "google"
          /\ daily_used_topics' = load_daily_topics(daily_topics_file, today)
          /\ UNCHANGED <<excepted, topics, tier_topics, feed_index,
                         unique_topics, seen_titles>>
  /\ UNCHANGED <<today, daily_topics_file, final_topics, write_outcome,
                 new_posts, calls,
                 nt_vars, art_vars, bf_vars, pub_vars>>

\* Method 1: get_google_trends_rss(num_topics), one feed per step. Its try
\* is around the loop over the feeds: an exception ends the loop.
fetch_trends_feed(outcome) ==
  /\ pc = "google"
  /\ LET tier == google_feed(tier_topics, outcome, NumTopics)
         all == topics \o Take(tier, NumTopics)
     IN  IF feed_index < NumTrendsFeeds /\ ~outcome.raised
         THEN /\ tier_topics' = tier
              /\ feed_index' = feed_index + 1
              /\ UNCHANGED <<pc, topics>>
         ELSE /\ topics' = all
              /\ tier_topics' = << >>
              /\ feed_index' = 1
              /\ pc' = IF Len(all) < NumTopics THEN "news" ELSE "dedup"
  /\ UNCHANGED <<today, daily_topics_file, daily_used_topics, unique_topics,
                 seen_titles, final_topics, write_outcome, excepted,
                 new_posts, calls,
                 nt_vars, art_vars, bf_vars, pub_vars>>

\* Method 2: get_news_trending_topics(num_topics - len(topics)), one feed
\* per step; the loop over the feeds breaks when the count is reached.
fetch_news_feed(outcome) ==
  /\ pc = "news"
  /\ LET num == NumTopics - Len(topics)
         tier == news_feed(tier_topics, outcome, num)
         all == topics \o Take(tier, num)
     IN  IF feed_index < NumNewsFeeds /\ Len(tier) < num
         THEN /\ tier_topics' = tier
              /\ feed_index' = feed_index + 1
              /\ UNCHANGED <<pc, topics>>
         ELSE /\ topics' = all
              /\ tier_topics' = << >>
              /\ feed_index' = 1
              /\ pc' = IF Len(all) < NumTopics THEN "reddit" ELSE "dedup"
  /\ UNCHANGED <<today, daily_topics_file, daily_used_topics, unique_topics,
                 seen_titles, final_topics, write_outcome, excepted,
                 new_posts, calls,
                 nt_vars, art_vars, bf_vars, pub_vars>>

\* Method 3: get_reddit_trending(num_topics - len(topics)), one url per
\* step.
fetch_reddit_url(outcome) ==
  /\ pc = "reddit"
  /\ LET num == NumTopics - Len(topics)
         tier == reddit_feed(tier_topics, outcome, num)
     IN  IF feed_index < NumRedditUrls
         THEN /\ tier_topics' = tier
              /\ feed_index' = feed_index + 1
              /\ UNCHANGED <<pc, topics>>
         ELSE /\ topics' = topics \o Take(tier, num)
              /\ tier_topics' = << >>
              /\ feed_index' = 1
              /\ pc' = "dedup"
  /\ UNCHANGED <<today, daily_topics_file, daily_used_topics, unique_topics,
                 seen_titles, final_topics, write_outcome, excepted,
                 new_posts, calls,
                 nt_vars, art_vars, bf_vars, pub_vars>>

\* "Remove duplicates (both within this run and from daily used topics)"
\* topics is read by nothing but two prints after this loop.
remove_duplicates ==
  /\ pc = "dedup"
  /\ LET unique == RemoveDuplicates(topics, << >>, daily_used_topics, NumTopics)
     IN  /\ unique_topics' = unique
         /\ seen_titles' = KeysOf(unique)
         /\ pc' = IF Len(unique) < NumTopics THEN "expanded" ELSE "save"
  /\ topics' = << >>
  /\ UNCHANGED <<today, daily_topics_file, daily_used_topics, tier_topics,
                 feed_index, final_topics, write_outcome, excepted,
                 new_posts, calls,
                 nt_vars, art_vars, bf_vars, pub_vars>>

\* "If we don't have enough unique topics, try expanded search":
\* get_expanded_news_topics, one feed per step, and after its last feed the
\* loop that adds its topics to unique_topics and seen_titles.
fetch_additional_feed(outcome) ==
  /\ pc = "expanded"
  /\ LET num_needed == NumTopics - Len(unique_topics)
         additional == expanded_feed(tier_topics, outcome, num_needed,
                                     daily_used_topics, seen_titles)
         unique == add_expanded(unique_topics, additional, NumTopics)
     IN  IF feed_index < NumAdditionalFeeds /\ Len(additional) < num_needed
         THEN /\ tier_topics' = additional
              /\ feed_index' = feed_index + 1
              /\ UNCHANGED <<pc, unique_topics, seen_titles>>
         ELSE /\ unique_topics' = unique
              /\ seen_titles' = seen_titles \cup KeysOf(unique)
              /\ tier_topics' = << >>
              /\ feed_index' = 1
              /\ pc' = IF Len(unique) < NumTopics THEN "fallback" ELSE "save"
  /\ UNCHANGED <<today, daily_topics_file, daily_used_topics, topics,
                 final_topics, write_outcome, excepted, new_posts, calls,
                 nt_vars, art_vars, bf_vars, pub_vars>>

\* "If still not enough, use fallback topics": get_fallback_topics loads
\* the ledger itself.
use_fallback_topics ==
  /\ pc = "fallback"
  /\ IF load_raises(daily_topics_file)
     THEN ToExcept
     ELSE LET fallback_topics ==
                get_fallback_topics(
                  load_daily_topics(daily_topics_file, today), NumTopics)
              unique == add_fallback(unique_topics, seen_titles,
                                     fallback_topics, daily_used_topics,
                                     NumTopics)
          IN  /\ unique_topics' = unique
              /\ seen_titles' = seen_titles \cup KeysOf(unique)
              /\ pc' = IF Len(unique) = 0 THEN "emergency" ELSE "save"
              /\ UNCHANGED <<excepted, topics, tier_topics, feed_index>>
  /\ UNCHANGED <<today, daily_topics_file, daily_used_topics, final_topics,
                 write_outcome, new_posts, calls,
                 nt_vars, art_vars, bf_vars, pub_vars>>

\* "If still no topics at all, create emergency topics"
use_emergency_topics ==
  /\ pc = "emergency"
  /\ unique_topics' =
       create_emergency_topics(NumTopics, daily_used_topics, today)
  /\ pc' = "save"
  /\ UNCHANGED <<today, daily_topics_file, daily_used_topics, topics,
                 tier_topics, feed_index, seen_titles, final_topics,
                 write_outcome, excepted, new_posts, calls,
                 nt_vars, art_vars, bf_vars, pub_vars>>

\* "Save the selected topics to daily tracking": save_daily_topics loads
\* the ledger, merges and writes the file.
save_selected(outcome) ==
  /\ pc = "save"
  /\ IF load_raises(daily_topics_file)
     THEN /\ ToExcept
          /\ UNCHANGED <<daily_topics_file, write_outcome>>
     ELSE /\ daily_topics_file' =
               save_daily_topics(daily_topics_file, today,
                                 KeysOf(unique_topics), outcome)
          /\ write_outcome' = outcome
          /\ IF save_raises(outcome)
             THEN ToExcept
             ELSE /\ pc' = "finish"
                  /\ UNCHANGED <<excepted, topics, tier_topics, feed_index,
                                 unique_topics, seen_titles>>
  /\ UNCHANGED <<today, daily_used_topics, final_topics, new_posts, calls,
                 nt_vars, art_vars, bf_vars, pub_vars>>

\* final_topics = unique_topics[:num_topics]; return final_topics
return_topics ==
  /\ pc = "finish"
  /\ final_topics' = Take(unique_topics, NumTopics)
  /\ pc' = "returned"
  /\ DropLocals
  /\ UNCHANGED <<today, daily_topics_file, daily_used_topics, write_outcome,
                 excepted, new_posts, calls,
                 nt_vars, art_vars, bf_vars, pub_vars>>

\* A statement of the try body outside the tier functions raises: a print
\* of a feed title raises UnicodeEncodeError when the output stream cannot
\* encode it. get_trending_topics prints the titles the expanded search
\* added (pc = "expanded", the search has topics to add) and, after the
\* save, the titles it is about to return (pc = "finish").
raise_in_try ==
  /\ \/ pc = "expanded" /\ tier_topics # << >>
     \/ pc = "finish" /\ unique_topics # << >>
  /\ ToExcept
  /\ UNCHANGED <<today, daily_topics_file, daily_used_topics, final_topics,
                 write_outcome, new_posts, calls,
                 nt_vars, art_vars, bf_vars, pub_vars>>

\* except Exception as e: return self.get_fallback_topics(num_topics)
\* get_fallback_topics loads the ledger; what it raises leaves
\* get_trending_topics and run_hourly_generation.
except_clause ==
  /\ pc = "except"
  /\ IF load_raises(daily_topics_file)
     THEN /\ pc' = "crashed"
          /\ UNCHANGED final_topics
     ELSE /\ final_topics' =
               get_fallback_topics(
                 load_daily_topics(daily_topics_file, today), NumTopics)
          /\ pc' = "returned"
  /\ UNCHANGED <<today, daily_topics_file, daily_used_topics, topics,
                 tier_topics, feed_index, unique_topics, seen_titles,
                 write_outcome, excepted, new_posts, calls,
                 nt_vars, art_vars, bf_vars, pub_vars>>

\* run_hourly_generation: "for topic in topics: try: ... except: continue".
\* failed is the set of positions whose research, synthesis or rendering
\* raised; the others give one post each.
\* The loop with break in the place of continue: the first topic that
\* raises ends it.
process_topics_aborting(failed) ==
  /\ pc = "returned"
  /\ final_topics # << >>
  /\ LET done == {i \in DOMAIN final_topics : \A j \in 1..i : j \notin failed}
         tried == {i \in DOMAIN final_topics : \A j \in 1..(i - 1) : j \notin failed}
     IN  /\ new_posts' = [i \in done |-> final_topics[i].title]
         /\ calls' =
              [i \in tried |->
                 Call("process_topic", final_topics[i].title, i \in failed)]
                \o <<Call("update_index_html", << >>, FALSE),
                     Call("update_site_metadata", << >>, FALSE)>>
  /\ pc' = "done"
  /\ UNCHANGED <<today, daily_topics_file, daily_used_topics, topics,
                 tier_topics, feed_index, unique_topics, seen_titles,
                 final_topics, write_outcome, excepted, nt_vars, art_vars, bf_vars, pub_vars>>

process_topics(failed) ==
  /\ pc = "returned"
  /\ final_topics # << >>
  /\ new_posts' =
       LET kept == SelectSeq([i \in DOMAIN final_topics |-> i],
                             LAMBDA i : i \notin failed)
       IN  [i \in DOMAIN kept |-> final_topics[kept[i]].title]
  /\ calls' =
       [i \in DOMAIN final_topics |->
          Call("process_topic", final_topics[i].title, i \in failed)]
         \o <<Call("update_index_html", << >>, FALSE),
              Call("update_site_metadata", << >>, FALSE)>>
  /\ pc' = "done"
  /\ UNCHANGED <<today, daily_topics_file, daily_used_topics, topics,
                 tier_topics, feed_index, unique_topics, seen_titles,
                 final_topics, write_outcome, excepted, nt_vars, art_vars, bf_vars, pub_vars>>

\* run_hourly_generation: "if not topics: ... return []"
no_new_topics ==
  /\ pc = "returned"
  /\ final_topics = << >>
  /\ pc' = "done"
  /\ calls' = <<Call("update_index_html", << >>, FALSE)>>
  /\ UNCHANGED <<today, daily_topics_file, daily_used_topics, topics,
                 tier_topics, feed_index, unique_topics, seen_titles,
                 final_topics, write_outcome, excepted, new_posts,
                 nt_vars, art_vars, bf_vars, pub_vars>>

\* The process ends (pc = "crashed": with the exception that left
\* run_hourly_generation); the next run starts from the file alone.
end_run ==
  /\ pc \in {"done", "crashed"}
  /\ pc' = "idle"
  /\ daily_used_topics' = {}
  /\ topics' = << >>
  /\ tier_topics' = << >>
  /\ feed_index' = 1
  /\ unique_topics' = << >>
  /\ seen_titles' = {}
  /\ final_topics' = << >>
  /\ write_outcome' = "none"
  /\ excepted' = FALSE
  /\ new_posts' = << >>
  /\ calls' = << >>
  /\ UNCHANGED <<today, daily_topics_file, nt_vars, art_vars, bf_vars, pub_vars>>

\* Midnight passes between two runs.
advance_day ==
  /\ pc = "idle"
  /\ today < MaxDay
  /\ today' = today + 1
  /\ UNCHANGED <<daily_topics_file, pc, run_vars, nt_vars, art_vars, bf_vars, pub_vars>>

\* Between two runs the file is deleted, made unreadable or overwritten
\* with text that is not a ledger record.
file_fault(state) ==
  /\ pc = "idle"
  /\ daily_topics_file' = NoRecord(state)
  /\ daily_topics_file' # daily_topics_file
  /\ UNCHANGED <<today, pc, run_vars, nt_vars, art_vars, bf_vars, pub_vars>>

Next ==
  \/ begin_run
  \/ \E outcome \in FeedOutcomes : fetch_trends_feed(outcome)
  \/ \E outcome \in FeedOutcomes : fetch_news_feed(outcome)
  \/ \E outcome \in FeedOutcomes : fetch_reddit_url(outcome)
  \/ remove_duplicates
  \/ \E outcome \in FeedOutcomes : fetch_additional_feed(outcome)
  \/ use_fallback_topics
  \/ use_emergency_topics
  \/ \E outcome \in WriteOutcomes : save_selected(outcome)
  \/ return_topics
  \/ raise_in_try
  \/ except_clause
  \/ \E failed \in SUBSET (1..NumTopics) : process_topics(failed)
  \/ no_new_topics
  \/ end_run
  \/ advance_day
  \/ \E state \in FileFaults \cup {"record"} : file_fault(state)

Spec == Init /\ [][Next]_vars

\* ------------------------------------------------------------------------
\* Properties of the selection and of the ledger
\* ------------------------------------------------------------------------

\* The keys today's ledger holds, as a load sees them.
StoredToday(file) == load_daily_topics(file, today)

\* The keys the fallback pool and the emergency templates of today can
\* still give, and the keys of the topics a run returned.
FallbackKeys ==
  {NormalizedKeys[all_fallback_topics[i]] : i \in DOMAIN all_fallback_topics}

EmergencyKeys ==
  LET templates == emergency_templates(date_str_of(today))
  IN  {NormalizedKeys[templates[i]] : i \in DOMAIN templates}

ObtainableKeys ==
  (KeysOf(final_topics) \cup FallbackKeys \cup EmergencyKeys)
    \ daily_used_topics

Selecting ==
  pc \in {"google", "news", "reddit", "dedup", "expanded", "fallback",
          "emergency", "save"}

WriteFailed == write_outcome \in {"open_fails", "dump_fails"}

\* C1: the list get_trending_topics returns never holds two topics with the
\* same normalized key, nor a topic whose key was in today's ledger when
\* the run loaded it.
ReturnedTopicsDistinctAndFresh ==
  pc = "returned" =>
    /\ \A i, j \in DOMAIN final_topics :
         i # j => KeyOf(final_topics[i]) # KeyOf(final_topics[j])
    /\ \A i \in DOMAIN final_topics :
         KeyOf(final_topics[i]) \notin daily_used_topics

\* C2: get_trending_topics(N) never returns more than N topics, and its
\* cascade (a run whose try body did not raise) returns N whenever the
\* feeds, the fallback pool and the emergency templates together have N
\* distinct keys that are not in today's ledger.
ReturnsRequestedCount ==
  (pc = "returned" /\ ~excepted) =>
    /\ Len(final_topics) <= NumTopics
    /\ Cardinality(ObtainableKeys) >= NumTopics
         => Len(final_topics) = NumTopics

\* C3: when get_trending_topics has returned and the ledger could be
\* written, the key of every returned topic is in the stored ledger of
\* today, on every return path.
ReturnedTopicsRecorded ==
  (pc = "returned" /\ ~WriteFailed) =>
    \A i \in DOMAIN final_topics :
      KeyOf(final_topics[i]) \in StoredToday(daily_topics_file)

\* C4: a ledger stored on another day is loaded as the empty set, so that
\* its keys can be selected again, and the first save of the new day stores
\* the keys selected on that day only.
StaleLedgerLoadsEmpty ==
  /\ [](( /\ Selecting
          /\ daily_topics_file.state = "record"
          /\ daily_topics_file.date # today) => daily_used_topics = {})
  /\ [][( /\ pc = "save"
          /\ daily_topics_file.state = "record"
          /\ daily_topics_file.date # today
          /\ write_outcome' = "ok")
          => daily_topics_file' = Record(today, KeysOf(unique_topics))]_vars

\* C4 witness: on the day after, a run that loaded the ledger of the day
\* before has selected a key that ledger holds.
StaleKeySelectedAgain ==
  /\ pc = "save"
  /\ daily_topics_file.state = "record"
  /\ daily_topics_file.date # today
  /\ daily_used_topics = {}
  /\ daily_topics_file.topics \cap KeysOf(unique_topics) # {}

\* C5 as stated: every call of save_daily_topics leaves in today's stored
\* record every key that was in it, together with the new keys.
SaveAppendsAlways ==
  [][pc = "save" /\ pc' # "save"
       => (StoredToday(daily_topics_file) \cup KeysOf(unique_topics))
            \subseteq StoredToday(daily_topics_file')]_vars

\* C5 amended: every call of save_daily_topics whose write succeeds leaves
\* in today's stored record exactly the keys that were in it and the new
\* keys.
SaveAppendsWhenWritten ==
  [][(pc = "save" /\ write_outcome' = "ok")
       => StoredToday(daily_topics_file')
            = StoredToday(daily_topics_file) \cup KeysOf(unique_topics)]_vars

\* C5 witness: a save has been written into a ledger that held keys of
\* today, and holds them and the new keys.
SavedIntoTodaysLedger ==
  /\ pc = "finish"
  /\ write_outcome = "ok"
  /\ daily_used_topics # {}
  /\ unique_topics # << >>
  /\ daily_topics_file = Record(today, daily_used_topics \cup KeysOf(unique_topics))

\* C6: load_daily_topics never raises, whatever the file holds: no run
\* reaches its except clause with a file that cannot be loaded, and no run
\* ends with an exception.
LedgerLoadFailOpen ==
  /\ pc = "except" => ~load_raises(daily_topics_file)
  /\ pc # "crashed"

\* C7: a write of the ledger that fails is not fatal: get_trending_topics
\* goes on to return the topics it selected, run_hourly_generation goes on
\* to process them, and the file holds no key it did not hold before.
WriteFailureNotFatal ==
  /\ [][(pc = "save" /\ write_outcome' \in {"open_fails", "dump_fails"})
          => /\ pc' = "finish"
             /\ unique_topics' = unique_topics
             /\ StoredToday(daily_topics_file')
                  \subseteq StoredToday(daily_topics_file)]_vars
  /\ [][(pc = "finish" /\ pc' = "returned")
          => final_topics' = Take(unique_topics, NumTopics)]_vars
  /\ [](pc = "done" =>
          \A i \in DOMAIN new_posts :
            \E j \in DOMAIN final_topics : new_posts[i] = final_topics[j].title)

\* C7 witness: the write failed, and the run ended with a post for each of
\* the topics selected.
AllPostsAfterFailedWrite ==
  /\ pc = "done"
  /\ WriteFailed
  /\ ~excepted
  /\ Len(final_topics) = NumTopics
  /\ Len(new_posts) = NumTopics

\* C17: a topic whose research, synthesis or rendering fails stops nothing
\* else: run_hourly_generation processes every selected topic in turn,
\* whatever became of the ones before it, every topic that did not fail
\* has its post, and update_index_html and update_site_metadata (the
\* pruning) are called after the last topic.
TopicFailureIsolated ==
  (pc = "done" /\ final_topics # << >>) =>
    LET n == Len(final_topics)
        succeeded == SelectSeq(calls, LAMBDA c : c.op = "process_topic"
                                                  /\ ~c.raised)
    IN  /\ Len(calls) = n + 2
        /\ \A i \in 1..n :
             /\ calls[i].op = "process_topic"
             /\ calls[i].title = final_topics[i].title
        /\ calls[n + 1].op = "update_index_html"
        /\ calls[n + 2].op = "update_site_metadata"
        /\ new_posts = [i \in DOMAIN succeeded |-> succeeded[i].title]

\* C17 witness: the first of three topics failed, the two after it have
\* their posts.
LaterTopicsProcessedAfterFailure ==
  /\ pc = "done"
  /\ Len(final_topics) = NumTopics
  /\ calls[1].raised
  /\ Len(new_posts) = NumTopics - 1
  /\ new_posts[1] = final_topics[2].title

\* C18: a feed whose fetch fails is skipped and the cascade goes on: while
\* fewer than num_topics topics have been obtained, a tier that has feeds
\* left fetches its next feed, a tier that ends short of num_topics is
\* followed by the next tier, and no fetch ends the run with an exception.
FailedFeedSkipped ==
  /\ [][(pc = "google" /\ feed_index < NumTrendsFeeds /\ pc' # "google")
          => Len(topics') >= NumTopics]_vars
  /\ [][(pc = "news" /\ feed_index < NumNewsFeeds /\ pc' # "news")
          => Len(topics') >= NumTopics]_vars
  /\ [][(pc = "google" /\ pc' # "google" /\ Len(topics') < NumTopics)
          => pc' = "news"]_vars
  /\ [][(pc = "news" /\ pc' # "news" /\ Len(topics') < NumTopics)
          => pc' = "reddit"]_vars
  /\ [][(pc \in {"google", "news", "reddit"})
          => pc' \notin {"except", "crashed"}]_vars

\* C19: when all tiers together, the emergency tier included, have fewer
\* than num_topics fresh keys to give, the run produces no article.
ExhaustionProducesNoArticle ==
  (pc = "done" /\ ~excepted /\ Cardinality(ObtainableKeys) < NumTopics)
    => new_posts = << >>

\* C20: whenever create_emergency_topics is called it returns num_topics
\* topics whose keys are pairwise distinct and not in today's ledger, also
\* after earlier runs of the day have recorded emergency topics.
EmergencyTopicsFresh ==
  [][pc = "emergency" =>
       /\ Len(unique_topics') = NumTopics
       /\ \A i, j \in DOMAIN unique_topics' :
            i # j => KeyOf(unique_topics'[i]) # KeyOf(unique_topics'[j])
       /\ \A i \in DOMAIN unique_topics' :
            KeyOf(unique_topics'[i]) \notin StoredToday(daily_topics_file)]_vars

\* ------------------------------------------------------------------------
\* normalize_title on its own: SpecNormalize
\* ------------------------------------------------------------------------

\* The words titles are made of in SpecNormalize: labels with and without
\* their colon, stopwords, a word that begins with a label and other words,
\* in the case a headline has.
Vocabulary ==
  { <<"B","r","e","a","k","i","n","g",":">>,
    <<"N","e","w","s">>,
    <<"L","i","v","e",":">>,
    <<"Z","e","b","r","a">>,
    <<"t","h","e">>,
    <<"T","o","d","a","y">>,
    <<"N","e","w","s","r","o","o","m">>,
    <<"x">> }

\* The labels of the leading label prefix, as prefixes_to_remove has them.
Labels == Range(prefixes_to_remove)

WordOrders(n) ==
  {f \in [1..n -> 1..n] : \A i, j \in 1..n : f[i] = f[j] => i = j}

\* words with w put in before position i
InsertAt(words, i, w) ==
  SubSeq(words, 1, i - 1) \o <<w>> \o SubSeq(words, i, Len(words))

\* words without the word at position i
RemoveAt(words, i) ==
  SubSeq(words, 1, i - 1) \o SubSeq(words, i + 1, Len(words))

Variant(kind, title) ==
  [kind |-> kind, title |-> title, key |-> normalize_title(title)]

InitNormalize ==
  /\ StartOfDayOne
  /\ nt_pc = "input"
  /\ nt_words \in SeqsUpTo(Vocabulary, MaxWords)
                 \cup {test_cases[i].original : i \in DOMAIN test_cases}
  /\ nt_key = << >>
  /\ nt_again = << >>
  /\ nt_variant = NoVariant
  /\ NoArticle
  /\ NoBackfill
  /\ NoPublish

\* key = normalize_title(title)
nt_normalize ==
  /\ nt_pc = "input"
  /\ nt_key' = normalize_title(str_join(nt_words))
  /\ nt_pc' = "normalized"
  /\ UNCHANGED <<main_vars, art_vars, bf_vars, pub_vars, nt_words, nt_again, nt_variant>>

\* normalize_title(key)
nt_normalize_again ==
  /\ nt_pc = "normalized"
  /\ nt_again' = normalize_title(nt_key)
  /\ nt_pc' = "again"
  /\ UNCHANGED <<main_vars, art_vars, bf_vars, pub_vars, nt_words, nt_key, nt_variant>>

\* normalize_title of the title with its words in another order
nt_normalize_permuted(f) ==
  /\ nt_pc = "normalized"
  /\ Len(nt_words) <= MaxWords
  /\ nt_variant' =
       Variant("permutation",
               str_join([i \in DOMAIN nt_words |-> nt_words[f[i]]]))
  /\ nt_pc' = "variant"
  /\ UNCHANGED <<main_vars, art_vars, bf_vars, pub_vars, nt_words, nt_key, nt_again>>

\* normalize_title of the title with a stopword put in
nt_normalize_stopword_added(i, w) ==
  /\ nt_pc = "normalized"
  /\ nt_variant' =
       Variant("stopword_added", str_join(InsertAt(nt_words, i, w)))
  /\ nt_pc' = "variant"
  /\ UNCHANGED <<main_vars, art_vars, bf_vars, pub_vars, nt_words, nt_key, nt_again>>

\* normalize_title of the title with one of its stopwords taken out
nt_normalize_stopword_removed(i) ==
  /\ nt_pc = "normalized"
  /\ str_lower(nt_words[i]) \in stop_words
  /\ nt_variant' =
       Variant("stopword_removed", str_join(RemoveAt(nt_words, i)))
  /\ nt_pc' = "variant"
  /\ UNCHANGED <<main_vars, art_vars, bf_vars, pub_vars, nt_words, nt_key, nt_again>>

\* normalize_title(L + ": " + title)
nt_normalize_labelled(label) ==
  /\ nt_pc = "normalized"
  /\ nt_variant' =
       Variant("label", label \o <<":", " ">> \o str_join(nt_words))
  /\ nt_pc' = "variant"
  /\ UNCHANGED <<main_vars, art_vars, bf_vars, pub_vars, nt_words, nt_key, nt_again>>

NextNormalize ==
  \/ nt_normalize
  \/ nt_normalize_again
  \/ \E f \in (IF Len(nt_words) <= MaxWords
                THEN WordOrders(Len(nt_words))
                ELSE {}) : nt_normalize_permuted(f)
  \/ \E i \in 1..(Len(nt_words) + 1), w \in stop_words :
       nt_normalize_stopword_added(i, w)
  \/ \E i \in DOMAIN nt_words : nt_normalize_stopword_removed(i)
  \/ \E label \in Labels : nt_normalize_labelled(label)

SpecNormalize == InitNormalize /\ [][NextNormalize]_vars

\* ------------------------------------------------------------------------
\* Properties of normalize_title
\* ------------------------------------------------------------------------

\* C8: normalize_title is idempotent: normalizing a key gives the key.
NormalizeIdempotent ==
  nt_pc = "again" => nt_again = nt_key

\* C9: the key does not depend on the order of the words of the title nor
\* on the stopwords in it: a permutation of the words, a stopword put in
\* or a stopword taken out gives the same key.
NormalizeOrderAndStopwordInsensitive ==
  (nt_pc = "variant"
     /\ nt_variant.kind \in {"permutation", "stopword_added", "stopword_removed"})
    => nt_variant.key = nt_key

\* C10: the key does not depend on a leading label prefix:
\* normalize_title(L + ": " + t) = normalize_title(t) for every label L.
NormalizeLabelInsensitive ==
  (nt_pc = "variant" /\ nt_variant.kind = "label") => nt_variant.key = nt_key

\* The words of the title as normalize_title compares them: in lower case
\* and without punctuation.
PlainWords(words) ==
  [i \in DOMAIN words |-> re_sub_punctuation(str_lower(words[i]))]

BeginsWithLabel(word) == \E label \in Labels : StartsWith(word, label)

Contains(s, sub) ==
  \E i \in 1..(Len(s) - Len(sub) + 1) :
    \A j \in DOMAIN sub : s[i + j - 1] = sub[j]

\* any(word in s for word in words)
ContainsAny(s, words) == \E w \in words : Contains(s, w)

\* s[:n] + ("..." if len(s) > n else "")
Truncate(s, n) ==
  Take(s, n) \o (IF Len(s) > n THEN <<".", ".", ".">> ELSE << >>)

\* str(n)
RECURSIVE str_of_int(_)
str_of_int(n) ==
  IF n < 10
  THEN <<CodePoints[Ord("0") + n]>>
  ELSE str_of_int(n \div 10) \o <<CodePoints[Ord("0") + (n % 10)]>>

\* urlparse(url).netloc: what lies between the "//" after the scheme and
\* the next "/", "?" or "#".
urlparse_netloc(url) ==
  LET starts == {i \in 1..(Len(url) - 1) : url[i] = "/" /\ url[i + 1] = "/"}
  IN  IF starts = {}
      THEN << >>
      ELSE LET b == (CHOOSE i \in starts : \A k \in starts : i <= k) + 2
               ends == {j \in b..Len(url) : url[j] \in {"/", "?", "#"}}
               e == IF ends = {}
                    THEN Len(url)
                    ELSE (CHOOSE j \in ends : \A k \in ends : j <= k) - 1
           IN  SubSeq(url, b, e)

\* The topics whose processing is followed: a law-enforcement title, a
\* casualty title, a judicial title and two titles of all_fallback_topics
\* (one naming a policy, one of no category).
ArticleTopics ==
  { Topic((* Police open investigation into harbour fire *)
    <<"P","o","l","i","c","e"," ","o","p","e","n"," ","i","n","v","e",
       "s","t","i","g","a","t","i","o","n"," ","i","n","t","o"," ","h","a",
       "r","b","o","u","r"," ","f","i","r","e">>),
    Topic((* Three killed in motorway crash *)
    <<"T","h","r","e","e"," ","k","i","l","l","e","d"," ","i","n"," ",
       "m","o","t","o","r","w","a","y"," ","c","r","a","s","h">>),
    Topic((* Court delays trial of former mayor *)
    <<"C","o","u","r","t"," ","d","e","l","a","y","s"," ","t","r","i",
       "a","l"," ","o","f"," ","f","o","r","m","e","r"," ","m","a","y","o",
       "r">>),
    Topic(all_fallback_topics[2]),
    Topic(all_fallback_topics[6]) }

\* search_google_top_results(query, num_results=3)
NumResults == 3

\* The url google_search may yield (more than once).
SearchUrls ==
  { (* https://example.org/story *)
    <<"h","t","t","p","s",":","/","/","e","x","a","m","p","l","e",".",
       "o","r","g","/","s","t","o","r","y">> }

\* What google_search does with a query: it is missing or raises
\* (found = FALSE), or it yields urls.
SearchOutcomes ==
  {[found |-> FALSE, urls |-> << >>]}
    \cup {[found |-> TRUE, urls |-> u] : u \in SeqsUpTo(SearchUrls, MaxUrls)}

\* get_fallback_results: domains_info, the 'domain' of each
domains_info ==
  << <<"b","b","c",".","c","o","m">>,
     <<"c","n","n",".","c","o","m">>,
     <<"r","e","u","t","e","r","s",".","c","o","m">>,
     <<"a","p","n","e","w","s",".","c","o","m">>,
     <<"t","h","e","g","u","a","r","d","i","a","n",".","c","o","m">> >>

get_fallback_results(num_results) ==
  [i \in 1..(IF num_results < Len(domains_info)
             THEN num_results ELSE Len(domains_info)) |->
     [url |-> <<"h","t","t","p","s",":","/","/">> \o domains_info[i] \o <<"/","n","e","w","s">>,
      domain |-> domains_info[i]]]

search_google_top_results(outcome, num_results) ==
  IF outcome.found
  THEN Take([i \in DOMAIN outcome.urls |->
               [url |-> outcome.urls[i],
                domain |-> urlparse_netloc(outcome.urls[i])]],
            num_results)
  ELSE get_fallback_results(num_results)

\* The text lines of the pages a fetch may return, as soup.get_text()
\* gives them (not yet stripped): a page of an article, a page whose first
\* paragraph quotes sources, a page of navigation only, a page with a
\* headline of 30 characters and a paragraph of 500.
Pages ==
  { << <<"H","o","m","e">>,
       <<" "," "," ">>,
       (*   The city council voted on Tuesday to approve a new budg... *)
       <<" "," ","T","h","e"," ","c","i","t","y"," ","c","o","u","n","c",
          "i","l"," ","v","o","t","e","d"," ","o","n"," ","T","u","e","s",
          "d","a","y"," ","t","o"," ","a","p","p","r","o","v","e"," ","a",
          " ","n","e","w"," ","b","u","d","g","e","t"," ","t","h","a","t",
          " ","i","n","c","r","e","a","s","e","s"," ","s","p","e","n","d",
          "i","n","g"," ","o","n"," ","p","u","b","l","i","c"," ","t","r",
          "a","n","s","p","o","r","t"," ","a","n","d"," ","r","o","a","d",
          " ","r","e","p","a","i","r","s","."," "," ">>,
       (*   Officials said the review will continue next week. *)
       <<" "," ","O","f","f","i","c","i","a","l","s"," ","s","a","i","d",
          " ","t","h","e"," ","r","e","v","i","e","w"," ","w","i","l","l",
          " ","c","o","n","t","i","n","u","e"," ","n","e","x","t"," ","w",
          "e","e","k",".">>,
       (* Residents who attended the meeting said they welcomed the... *)
       <<"R","e","s","i","d","e","n","t","s"," ","w","h","o"," ","a","t",
          "t","e","n","d","e","d"," ","t","h","e"," ","m","e","e","t","i",
          "n","g"," ","s","a","i","d"," ","t","h","e","y"," ","w","e","l",
          "c","o","m","e","d"," ","t","h","e"," ","d","e","c","i","s","i",
          "o","n"," ","b","u","t"," ","a","s","k","e","d"," ","f","o","r",
          " ","a"," ","c","l","e","a","r"," ","t","i","m","e","t","a","b",
          "l","e"," ","f","o","r"," ","t","h","e"," ","p","l","a","n","n",
          "e","d"," ","w","o","r","k","s",".">> >>,
    << (* Two sources tell the newspaper that the minister's office... *)
       <<"T","w","o"," ","s","o","u","r","c","e","s"," ","t","e","l","l",
          " ","t","h","e"," ","n","e","w","s","p","a","p","e","r"," ","t",
          "h","a","t"," ","t","h","e"," ","m","i","n","i","s","t","e","r",
          "'","s"," ","o","f","f","i","c","e"," ","w","a","s"," ","w","a",
          "r","n","e","d"," ","a","b","o","u","t"," ","t","h","e"," ","p",
          "r","o","b","l","e","m"," ","s","e","v","e","r","a","l"," ","m",
          "o","n","t","h","s"," ","b","e","f","o","r","e"," ","i","t"," ",
          "b","e","c","a","m","e"," ","p","u","b","l","i","c",".">>,
       (* Residents who attended the meeting said they welcomed the... *)
       <<"R","e","s","i","d","e","n","t","s"," ","w","h","o"," ","a","t",
          "t","e","n","d","e","d"," ","t","h","e"," ","m","e","e","t","i",
          "n","g"," ","s","a","i","d"," ","t","h","e","y"," ","w","e","l",
          "c","o","m","e","d"," ","t","h","e"," ","d","e","c","i","s","i",
          "o","n"," ","b","u","t"," ","a","s","k","e","d"," ","f","o","r",
          " ","a"," ","c","l","e","a","r"," ","t","i","m","e","t","a","b",
          "l","e"," ","f","o","r"," ","t","h","e"," ","p","l","a","n","n",
          "e","d"," ","w","o","r","k","s",".">> >>,
    << <<"H","o","m","e">>,
       (* Subscribe to our newsletter for the latest headlines *)
       <<"S","u","b","s","c","r","i","b","e"," ","t","o"," ","o","u","r",
          " ","n","e","w","s","l","e","t","t","e","r"," ","f","o","r"," ",
          "t","h","e"," ","l","a","t","e","s","t"," ","h","e","a","d","l",
          "i","n","e","s">> >>,
    << (* Council approves new road plan *)
       <<"C","o","u","n","c","i","l"," ","a","p","p","r","o","v","e","s",
          " ","n","e","w"," ","r","o","a","d"," ","p","l","a","n">>,
       (* The statement released after the meeting set out the time... *)
       <<"T","h","e"," ","s","t","a","t","e","m","e","n","t"," ","r","e",
          "l","e","a","s","e","d"," ","a","f","t","e","r"," ","t","h","e",
          " ","m","e","e","t","i","n","g"," ","s","e","t"," ","o","u","t",
          " ","t","h","e"," ","t","i","m","e","t","a","b","l","e"," ","f",
          "o","r"," ","t","h","e"," ","w","o","r","k"," ","i","n"," ","d",
          "e","t","a","i","l",":"," ","t","h","e"," ","r","e","s","u","r",
          "f","a","c","i","n","g"," ","o","f"," ","t","h","e"," ","r","i",
          "n","g"," ","r","o","a","d"," ","b","e","g","i","n","s"," ","i",
          "n"," ","M","a","r","c","h",","," ","t","h","e"," ","t","w","o",
          " ","b","r","i","d","g","e","s"," ","o","v","e","r"," ","t","h",
          "e"," ","r","i","v","e","r"," ","a","r","e"," ","c","l","o","s",
          "e","d"," ","i","n"," ","t","u","r","n"," ","d","u","r","i","n",
          "g"," ","t","h","e"," ","s","u","m","m","e","r",","," ","t","h",
          "e"," ","b","u","s"," ","l","a","n","e","s"," ","o","n"," ","t",
          "h","e"," ","m","a","i","n"," ","a","v","e","n","u","e"," ","a",
          "r","e"," ","e","x","t","e","n","d","e","d"," ","i","n"," ","t",
          "h","e"," ","a","u","t","u","m","n",","," ","a","n","d"," ","t",
          "h","e"," ","t","r","a","m"," ","l","i","n","e"," ","t","o"," ",
          "t","h","e"," ","n","o","r","t","h","e","r","n"," ","d","i","s",
          "t","r","i","c","t","s"," ","i","s"," ","t","o"," ","o","p","e",
          "n"," ","b","e","f","o","r","e"," ","t","h","e"," ","e","n","d",
          " ","o","f"," ","n","e","x","t"," ","y","e","a","r",","," ","w",
          "i","t","h"," ","t","h","e"," ","c","o","s","t"," ","s","h","a",
          "r","e","d"," ","b","e","t","w","e","e","n"," ","t","h","e"," ",
          "c","i","t","y",","," ","t","h","e"," ","r","e","g","i","o","n",
          " ","a","n","d"," ","t","h","e"," ","n","a","t","i","o","n","a",
          "l"," ","f","u","n","d"," ","f","o","r"," ","t","r","a","n","s",
          "p","o","r","t",","," ","w","h","i","c","h"," ","a","g","r","e",
          "e","d"," ","t","o"," ","c","o","v","e","r"," ","o","n","e"," ",
          "t","h","i","r","d"," ","o","f"," ","t","h","e"," ","t","o","t",
          "a","l"," ","c","o","s","t"," ","o","f"," ","t","h","e"," ","p",
          "l","a","n",".">>,
       (*   Officials said the review will continue next week. *)
       <<" "," ","O","f","f","i","c","i","a","l","s"," ","s","a","i","d",
          " ","t","h","e"," ","r","e","v","i","e","w"," ","w","i","l","l",
          " ","c","o","n","t","i","n","u","e"," ","n","e","x","t"," ","w",
          "e","e","k",".">> >> }

\* What requests.get(url, timeout=15) and raise_for_status do: a timeout,
\* an HTTP error status, a connection error, a response that is not HTML,
\* or a page.
FetchOutcomes ==
  {[kind |-> k, lines |-> << >>] :
     k \in {"timeout", "http_error", "connection_error", "not_html"}}
    \cup {[kind |-> "page", lines |-> p] : p \in Pages}

\* extract_first_three_lines: skip_keywords
skip_keywords ==
  { <<"m","e","n","u">>, <<"l","o","g","i","n">>,
    <<"s","i","g","n"," ","u","p">>,
    <<"c","o","o","k","i","e">>,
    <<"p","r","i","v","a","c","y">>,
    <<"s","u","b","s","c","r","i","b","e">>,
    <<"n","e","w","s","l","e","t","t","e","r">>,
    <<"a","d","v","e","r","t","i","s","e","m","e","n","t">> }

\* [line.strip() for line in text.split('\n') if line.strip()]
StrippedLines(lines) ==
  SelectSeq([i \in DOMAIN lines |-> str_strip(lines[i])],
            LAMBDA l : l # << >>)

\* The loop of extract_first_three_lines over the lines of the page.
RECURSIVE meaningful_lines(_, _)
meaningful_lines(lines, collected) ==
  IF lines = << >>
  THEN collected
  ELSE LET line == Head(lines)
       IN  meaningful_lines(
             Tail(lines),
             IF /\ Len(line) > 30
                /\ Len(line) < 500
                /\ ~ContainsAny(str_lower(line), skip_keywords)
                /\ Len(collected) < 3
             THEN Append(collected, Take(line, 300))
             ELSE collected)

generate_fallback_content_for_topic(url, topic) ==
  LET domain == urlparse_netloc(url)
      title_lower == str_lower(topic.title)
  IN  IF \/ Contains(title_lower, <<"p","o","l","i","c","e">>)
         \/ Contains(title_lower, <<"i","n","v","e","s","t","i","g","a","t","i","o","n">>)
      THEN << (* Authorities are investigating the circumstances surroundi... *)
              <<"A","u","t","h","o","r","i","t","i","e","s"," ","a","r",
                 "e"," ","i","n","v","e","s","t","i","g","a","t","i","n",
                 "g"," ","t","h","e"," ","c","i","r","c","u","m","s","t",
                 "a","n","c","e","s"," ","s","u","r","r","o","u","n","d",
                 "i","n","g"," ">>
              \o title_lower
              \o <<","," ","a","c","c","o","r","d","i","n","g"," ","t","o",
                 " ","s","o","u","r","c","e","s"," ","f","a","m","i","l",
                 "i","a","r"," ","w","i","t","h"," ","t","h","e"," ","m",
                 "a","t","t","e","r",".">>,
           (* Law enforcement officials have confirmed they are treatin... *)
              <<"L","a","w"," ","e","n","f","o","r","c","e","m","e","n",
                 "t"," ","o","f","f","i","c","i","a","l","s"," ","h","a",
                 "v","e"," ","c","o","n","f","i","r","m","e","d"," ","t",
                 "h","e","y"," ","a","r","e"," ","t","r","e","a","t","i",
                 "n","g"," ","t","h","i","s"," ","a","s"," ","a"," ","p",
                 "r","i","o","r","i","t","y"," ","c","a","s","e"," ","r",
                 "e","q","u","i","r","i","n","g"," ","i","m","m","e","d",
                 "i","a","t","e"," ","a","t","t","e","n","t","i","o","n",
                 " ","a","n","d"," ","t","h","o","r","o","u","g","h"," ",
                 "i","n","v","e","s","t","i","g","a","t","i","o","n",".">>,
           (* The investigation involves multiple departments working t... *)
              <<"T","h","e"," ","i","n","v","e","s","t","i","g","a","t",
                 "i","o","n"," ","i","n","v","o","l","v","e","s"," ","m",
                 "u","l","t","i","p","l","e"," ","d","e","p","a","r","t",
                 "m","e","n","t","s"," ","w","o","r","k","i","n","g"," ",
                 "t","o","g","e","t","h","e","r"," ","t","o"," ","g","a",
                 "t","h","e","r"," ","e","v","i","d","e","n","c","e"," ",
                 "a","n","d"," ","i","n","t","e","r","v","i","e","w"," ",
                 "k","e","y"," ","w","i","t","n","e","s","s","e","s",",",
                 " ","a","c","c","o","r","d","i","n","g"," ","t","o"," ">>
              \o domain
              \o <<" ","r","e","p","o","r","t","s",".">> >>
      ELSE IF \/ Contains(title_lower, <<"d","e","a","d">>)
              \/ Contains(title_lower, <<"k","i","l","l","e","d">>)
              \/ Contains(title_lower, <<"d","i","e","d">>)
      THEN << (* Multiple fatalities have been confirmed in an incident in... *)
              <<"M","u","l","t","i","p","l","e"," ","f","a","t","a","l",
                 "i","t","i","e","s"," ","h","a","v","e"," ","b","e","e",
                 "n"," ","c","o","n","f","i","r","m","e","d"," ","i","n",
                 " ","a","n"," ","i","n","c","i","d","e","n","t"," ","i",
                 "n","v","o","l","v","i","n","g"," ">>
              \o title_lower
              \o <<","," ","e","m","e","r","g","e","n","c","y"," ","s","e",
                 "r","v","i","c","e","s"," ","r","e","p","o","r","t",".">>,
           (* First responders arrived at the scene within minutes of r... *)
              <<"F","i","r","s","t"," ","r","e","s","p","o","n","d","e",
                 "r","s"," ","a","r","r","i","v","e","d"," ","a","t"," ",
                 "t","h","e"," ","s","c","e","n","e"," ","w","i","t","h",
                 "i","n"," ","m","i","n","u","t","e","s"," ","o","f"," ",
                 "r","e","c","e","i","v","i","n","g"," ","i","n","i","t",
                 "i","a","l"," ","e","m","e","r","g","e","n","c","y"," ",
                 "c","a","l","l","s",","," ","i","m","m","e","d","i","a",
                 "t","e","l","y"," ","b","e","g","i","n","n","i","n","g",
                 " ","r","e","s","c","u","e"," ","a","n","d"," ","r","e",
                 "c","o","v","e","r","y"," ","o","p","e","r","a","t","i",
                 "o","n","s",".">>,
           (* Medical personnel and law enforcement are working togethe... *)
              <<"M","e","d","i","c","a","l"," ","p","e","r","s","o","n",
                 "n","e","l"," ","a","n","d"," ","l","a","w"," ","e","n",
                 "f","o","r","c","e","m","e","n","t"," ","a","r","e"," ",
                 "w","o","r","k","i","n","g"," ","t","o","g","e","t","h",
                 "e","r"," ","t","o"," ","s","e","c","u","r","e"," ","t",
                 "h","e"," ","a","r","e","a"," ","a","n","d"," ","p","r",
                 "o","v","i","d","e"," ","a","s","s","i","s","t","a","n",
                 "c","e"," ","t","o"," ","t","h","o","s","e"," ","a","f",
                 "f","e","c","t","e","d",","," ","s","o","u","r","c","e",
                 "s"," ","t","e","l","l"," ">>
              \o domain
              \o <<".">> >>
      ELSE IF \/ Contains(title_lower, <<"g","o","v","e","r","n","m","e","n","t">>)
              \/ Contains(title_lower, <<"m","i","n","i","s","t","e","r">>)
              \/ Contains(title_lower, <<"p","o","l","i","c","y">>)
      THEN << (* Government officials have announced significant policy ch... *)
              <<"G","o","v","e","r","n","m","e","n","t"," ","o","f","f",
                 "i","c","i","a","l","s"," ","h","a","v","e"," ","a","n",
                 "n","o","u","n","c","e","d"," ","s","i","g","n","i","f",
                 "i","c","a","n","t"," ","p","o","l","i","c","y"," ","c",
                 "h","a","n","g","e","s"," ","r","e","g","a","r","d","i",
                 "n","g"," ">>
              \o title_lower
              \o <<","," ","m","a","r","k","i","n","g"," ","a"," ","m","a",
                 "j","o","r"," ","s","h","i","f","t"," ","i","n"," ","o",
                 "f","f","i","c","i","a","l"," ","p","o","s","i","t","i",
                 "o","n",".">>,
           (* The announcement comes after extensive consultation with ... *)
              <<"T","h","e"," ","a","n","n","o","u","n","c","e","m","e",
                 "n","t"," ","c","o","m","e","s"," ","a","f","t","e","r",
                 " ","e","x","t","e","n","s","i","v","e"," ","c","o","n",
                 "s","u","l","t","a","t","i","o","n"," ","w","i","t","h",
                 " ","s","t","a","k","e","h","o","l","d","e","r","s"," ",
                 "a","n","d"," ","r","e","p","r","e","s","e","n","t","s",
                 " ","a"," ","c","o","m","p","r","e","h","e","n","s","i",
                 "v","e"," ","a","p","p","r","o","a","c","h"," ","t","o",
                 " ","a","d","d","r","e","s","s","i","n","g"," ","t","h",
                 "e"," ","i","s","s","u","e",".">>,
           (* Cabinet ministers have expressed their full support for t... *)
              <<"C","a","b","i","n","e","t"," ","m","i","n","i","s","t",
                 "e","r","s"," ","h","a","v","e"," ","e","x","p","r","e",
                 "s","s","e","d"," ","t","h","e","i","r"," ","f","u","l",
                 "l"," ","s","u","p","p","o","r","t"," ","f","o","r"," ",
                 "t","h","e"," ","n","e","w"," ","m","e","a","s","u","r",
                 "e","s",","," ","w","h","i","c","h"," ","a","r","e"," ",
                 "e","x","p","e","c","t","e","d"," ","t","o"," ","h","a",
                 "v","e"," ","w","i","d","e","-","r","a","n","g","i","n",
                 "g"," ","i","m","p","l","i","c","a","t","i","o","n","s",
                 ","," ">>
              \o domain
              \o <<" ","r","e","p","o","r","t","s",".">> >>
      ELSE IF \/ Contains(title_lower, <<"c","o","u","r","t">>)
              \/ Contains(title_lower, <<"t","r","i","a","l">>)
              \/ Contains(title_lower, <<"l","a","w","s","u","i","t">>)
      THEN << (* Legal proceedings are advancing in the case involving {ti... *)
              <<"L","e","g","a","l"," ","p","r","o","c","e","e","d","i",
                 "n","g","s"," ","a","r","e"," ","a","d","v","a","n","c",
                 "i","n","g"," ","i","n"," ","t","h","e"," ","c","a","s",
                 "e"," ","i","n","v","o","l","v","i","n","g"," ">>
              \o title_lower
              \o <<","," ","w","i","t","h"," ","b","o","t","h"," ","s","i",
                 "d","e","s"," ","p","r","e","p","a","r","i","n","g"," ",
                 "c","o","m","p","r","e","h","e","n","s","i","v","e"," ",
                 "a","r","g","u","m","e","n","t","s",".">>,
           (* Court officials have confirmed that all proper procedures... *)
              <<"C","o","u","r","t"," ","o","f","f","i","c","i","a","l",
                 "s"," ","h","a","v","e"," ","c","o","n","f","i","r","m",
                 "e","d"," ","t","h","a","t"," ","a","l","l"," ","p","r",
                 "o","p","e","r"," ","p","r","o","c","e","d","u","r","e",
                 "s"," ","a","r","e"," ","b","e","i","n","g"," ","f","o",
                 "l","l","o","w","e","d"," ","t","o"," ","e","n","s","u",
                 "r","e"," ","a"," ","f","a","i","r"," ","a","n","d"," ",
                 "t","h","o","r","o","u","g","h"," ","h","e","a","r","i",
                 "n","g"," ","o","f"," ","t","h","e"," ","m","a","t","t",
                 "e","r",".">>,
           (* The case has attracted significant attention from legal e... *)
              <<"T","h","e"," ","c","a","s","e"," ","h","a","s"," ","a",
                 "t","t","r","a","c","t","e","d"," ","s","i","g","n","i",
                 "f","i","c","a","n","t"," ","a","t","t","e","n","t","i",
                 "o","n"," ","f","r","o","m"," ","l","e","g","a","l"," ",
                 "e","x","p","e","r","t","s"," ","w","h","o"," ","n","o",
                 "t","e"," ","i","t","s"," ","p","o","t","e","n","t","i",
                 "a","l"," ","t","o"," ","s","e","t"," ","i","m","p","o",
                 "r","t","a","n","t"," ","p","r","e","c","e","d","e","n",
                 "t","s",","," ","a","c","c","o","r","d","i","n","g"," ",
                 "t","o"," ">>
              \o domain
              \o <<".">> >>
      ELSE << (* Developing story: {topic.title} continues to unfold as au... *)
              <<"D","e","v","e","l","o","p","i","n","g"," ","s","t","o",
                 "r","y",":"," ">>
              \o topic.title
              \o <<" ","c","o","n","t","i","n","u","e","s"," ","t","o"," ",
                 "u","n","f","o","l","d"," ","a","s"," ","a","u","t","h",
                 "o","r","i","t","i","e","s"," ","a","n","d"," ","s","t",
                 "a","k","e","h","o","l","d","e","r","s"," ","r","e","s",
                 "p","o","n","d"," ","t","o"," ","t","h","e"," ","e","v",
                 "o","l","v","i","n","g"," ","s","i","t","u","a","t","i",
                 "o","n",".">>,
           (* Multiple agencies are coordinating their response efforts... *)
              <<"M","u","l","t","i","p","l","e"," ","a","g","e","n","c",
                 "i","e","s"," ","a","r","e"," ","c","o","o","r","d","i",
                 "n","a","t","i","n","g"," ","t","h","e","i","r"," ","r",
                 "e","s","p","o","n","s","e"," ","e","f","f","o","r","t",
                 "s"," ","t","o"," ","a","d","d","r","e","s","s"," ","t",
                 "h","e"," ","c","o","m","p","l","e","x"," ","c","i","r",
                 "c","u","m","s","t","a","n","c","e","s"," ","s","u","r",
                 "r","o","u","n","d","i","n","g"," ","t","h","i","s"," ",
                 "d","e","v","e","l","o","p","i","n","g"," ","s","t","o",
                 "r","y",".">>,
           (* Officials have promised regular updates as more informati... *)
              <<"O","f","f","i","c","i","a","l","s"," ","h","a","v","e",
                 " ","p","r","o","m","i","s","e","d"," ","r","e","g","u",
                 "l","a","r"," ","u","p","d","a","t","e","s"," ","a","s",
                 " ","m","o","r","e"," ","i","n","f","o","r","m","a","t",
                 "i","o","n"," ","b","e","c","o","m","e","s"," ","a","v",
                 "a","i","l","a","b","l","e",","," ","w","i","t","h"," ",
                 "t","r","a","n","s","p","a","r","e","n","c","y"," ","m",
                 "a","i","n","t","a","i","n","e","d"," ","t","h","r","o",
                 "u","g","h","o","u","t"," ","t","h","e"," ","p","r","o",
                 "c","e","s","s",","," ">>
              \o domain
              \o <<" ","r","e","p","o","r","t","s",".">> >>

\* The variant of extract_first_three_lines that returns the lines it
\* found even when it found none.
extract_first_three_lines_unguarded(url, topic, outcome) ==
  LET domain == urlparse_netloc(url)
  IN  CASE outcome.kind = "timeout" ->
             << (* Request to {domain} timed out. *)
                   <<"R","e","q","u","e","s","t"," ","t","o"," ">>
                   \o domain
                   \o <<" ","t","i","m","e","d"," ","o","u","t",".">>,
                (* The website may be experiencing high traffic or connectiv... *)
                   <<"T","h","e"," ","w","e","b","s","i","t","e"," ","m",
                      "a","y"," ","b","e"," ","e","x","p","e","r","i","e",
                      "n","c","i","n","g"," ","h","i","g","h"," ","t","r",
                      "a","f","f","i","c"," ","o","r"," ","c","o","n","n",
                      "e","c","t","i","v","i","t","y"," ","i","s","s","u",
                      "e","s",".">>,
                (* This is a fallback summary for the trending topic. *)
                   <<"T","h","i","s"," ","i","s"," ","a"," ","f","a","l",
                      "l","b","a","c","k"," ","s","u","m","m","a","r","y",
                      " ","f","o","r"," ","t","h","e"," ","t","r","e","n",
                      "d","i","n","g"," ","t","o","p","i","c",".">> >>
        [] outcome.kind \in {"http_error", "connection_error"} ->
             generate_fallback_content_for_topic(url, topic)
        [] outcome.kind = "not_html" ->
             << (* Content from {domain} is not in HTML format. *)
                   <<"C","o","n","t","e","n","t"," ","f","r","o","m"," "
                      >>
                   \o domain
                   \o <<" ","i","s"," ","n","o","t"," ","i","n"," ","H","T",
                      "M","L"," ","f","o","r","m","a","t",".">>,
                (* This may be a file download or API endpoint rather than a... *)
                   <<"T","h","i","s"," ","m","a","y"," ","b","e"," ","a",
                      " ","f","i","l","e"," ","d","o","w","n","l","o","a",
                      "d"," ","o","r"," ","A","P","I"," ","e","n","d","p",
                      "o","i","n","t"," ","r","a","t","h","e","r"," ","t",
                      "h","a","n"," ","a"," ","w","e","b","p","a","g","e",
                      ".">>,
                (* Please check the source directly for complete information. *)
                   <<"P","l","e","a","s","e"," ","c","h","e","c","k"," ",
                      "t","h","e"," ","s","o","u","r","c","e"," ","d","i",
                      "r","e","c","t","l","y"," ","f","o","r"," ","c","o",
                      "m","p","l","e","t","e"," ","i","n","f","o","r","m",
                      "a","t","i","o","n",".">> >>
        [] outcome.kind = "page" ->
             Take(meaningful_lines(StrippedLines(outcome.lines), << >>), 3)

extract_first_three_lines(url, topic, outcome) ==
  LET domain == urlparse_netloc(url)
  IN  CASE outcome.kind = "timeout" ->
             << (* Request to {domain} timed out. *)
                   <<"R","e","q","u","e","s","t"," ","t","o"," ">>
                   \o domain
                   \o <<" ","t","i","m","e","d"," ","o","u","t",".">>,
                (* The website may be experiencing high traffic or connectiv... *)
                   <<"T","h","e"," ","w","e","b","s","i","t","e"," ","m",
                      "a","y"," ","b","e"," ","e","x","p","e","r","i","e",
                      "n","c","i","n","g"," ","h","i","g","h"," ","t","r",
                      "a","f","f","i","c"," ","o","r"," ","c","o","n","n",
                      "e","c","t","i","v","i","t","y"," ","i","s","s","u",
                      "e","s",".">>,
                (* This is a fallback summary for the trending topic. *)
                   <<"T","h","i","s"," ","i","s"," ","a"," ","f","a","l",
                      "l","b","a","c","k"," ","s","u","m","m","a","r","y",
                      " ","f","o","r"," ","t","h","e"," ","t","r","e","n",
                      "d","i","n","g"," ","t","o","p","i","c",".">> >>
        [] outcome.kind \in {"http_error", "connection_error"} ->
             generate_fallback_content_for_topic(url, topic)
        [] outcome.kind = "not_html" ->
             << (* Content from {domain} is not in HTML format. *)
                   <<"C","o","n","t","e","n","t"," ","f","r","o","m"," "
                      >>
                   \o domain
                   \o <<" ","i","s"," ","n","o","t"," ","i","n"," ","H","T",
                      "M","L"," ","f","o","r","m","a","t",".">>,
                (* This may be a file download or API endpoint rather than a... *)
                   <<"T","h","i","s"," ","m","a","y"," ","b","e"," ","a",
                      " ","f","i","l","e"," ","d","o","w","n","l","o","a",
                      "d"," ","o","r"," ","A","P","I"," ","e","n","d","p",
                      "o","i","n","t"," ","r","a","t","h","e","r"," ","t",
                      "h","a","n"," ","a"," ","w","e","b","p","a","g","e",
                      ".">>,
                (* Please check the source directly for complete information. *)
                   <<"P","l","e","a","s","e"," ","c","h","e","c","k"," ",
                      "t","h","e"," ","s","o","u","r","c","e"," ","d","i",
                      "r","e","c","t","l","y"," ","f","o","r"," ","c","o",
                      "m","p","l","e","t","e"," ","i","n","f","o","r","m",
                      "a","t","i","o","n",".">> >>
        [] outcome.kind = "page" ->
             LET found == meaningful_lines(StrippedLines(outcome.lines), << >>)
             IN  IF found = << >>
                 THEN << (* No meaningful content could be extracted from {domain}. *)
                           <<"N","o"," ","m","e","a","n","i","n","g","f",
                              "u","l"," ","c","o","n","t","e","n","t"," ",
                              "c","o","u","l","d"," ","b","e"," ","e","x",
                              "t","r","a","c","t","e","d"," ","f","r","o",
                              "m"," ">>
                           \o domain
                           \o <<".">>,
                        (* The webpage may have restricted access or unusual formatt... *)
                           <<"T","h","e"," ","w","e","b","p","a","g","e",
                              " ","m","a","y"," ","h","a","v","e"," ","r",
                              "e","s","t","r","i","c","t","e","d"," ","a",
                              "c","c","e","s","s"," ","o","r"," ","u","n",
                              "u","s","u","a","l"," ","f","o","r","m","a",
                              "t","t","i","n","g",".">>,
                        (* This is a placeholder summary based on the trending topic. *)
                           <<"T","h","i","s"," ","i","s"," ","a"," ","p",
                              "l","a","c","e","h","o","l","d","e","r"," ",
                              "s","u","m","m","a","r","y"," ","b","a","s",
                              "e","d"," ","o","n"," ","t","h","e"," ","t",
                              "r","e","n","d","i","n","g"," ","t","o","p",
                              "i","c",".">> >>
                 ELSE Take(found, 3)

\* The urls a search result may have.
ResultUrls ==
  SearchUrls
    \cup {get_fallback_results(NumResults)[i].url : i \in 1..NumResults}

\* extract_first_three_lines over the topics, urls and fetch outcomes of
\* the model, tabulated once.
ExtractedLines ==
  [topic \in ArticleTopics |->
     [url \in ResultUrls |->
        [outcome \in FetchOutcomes |->
           extract_first_three_lines(url, topic, outcome)]]]

\* research_data['website_content'][domain] = {...}: a key already in the
\* dict keeps its place, a new key goes last.
dict_set(content, entry) ==
  IF \E i \in DOMAIN content : content[i].domain = entry.domain
  THEN [i \in DOMAIN content |->
          IF content[i].domain = entry.domain THEN entry ELSE content[i]]
  ELSE Append(content, entry)

\* ------------------------------------------------------------------------
\* Writing the article: generate_lead_section,
\* generate_authentic_news_content and the source attribution of
\* create_structured_article
\* ------------------------------------------------------------------------

\* None, and the empty string: both are false where the code tests them.
None == << >>

\* is_fallback_content: fallback_indicators
fallback_indicators ==
  { (* according to sources familiar with the matter *)
    <<"a","c","c","o","r","d","i","n","g"," ","t","o"," ","s","o","u",
       "r","c","e","s"," ","f","a","m","i","l","i","a","r"," ","w","i","t",
       "h"," ","t","h","e"," ","m","a","t","t","e","r">>,
    (* emergency services report *)
    <<"e","m","e","r","g","e","n","c","y"," ","s","e","r","v","i","c",
       "e","s"," ","r","e","p","o","r","t">>,
    (* sources tell *)
    <<"s","o","u","r","c","e","s"," ","t","e","l","l">>,
    (* No meaningful content could be extracted *)
    <<"N","o"," ","m","e","a","n","i","n","g","f","u","l"," ","c","o",
       "n","t","e","n","t"," ","c","o","u","l","d"," ","b","e"," ","e","x",
       "t","r","a","c","t","e","d">>,
    (* Breaking News, Latest News and Videos *)
    <<"B","r","e","a","k","i","n","g"," ","N","e","w","s",","," ","L",
       "a","t","e","s","t"," ","N","e","w","s"," ","a","n","d"," ","V","i",
       "d","e","o","s">> }

is_fallback_content(content) == ContainsAny(content, fallback_indicators)

\* is_generic_content: generic_phrases
generic_phrases ==
  { <<"c","o","o","k","i","e">>,
    <<"p","r","i","v","a","c","y"," ","p","o","l","i","c","y">>,
    <<"s","u","b","s","c","r","i","b","e">>,
    <<"n","e","w","s","l","e","t","t","e","r">>,
    <<"a","d","v","e","r","t","i","s","e","m","e","n","t">>,
    <<"s","i","g","n"," ","u","p">>,
    <<"l","o","g"," ","i","n">>,
    <<"m","e","n","u">>,
    <<"n","a","v","i","g","a","t","i","o","n">>,
    <<"f","o","l","l","o","w"," ","u","s">>,
    <<"s","o","c","i","a","l"," ","m","e","d","i","a">> }

is_generic_content(content) ==
  ContainsAny(str_lower(content), generic_phrases)

\* Every line extract_first_three_lines returns in the model.
ContentLines ==
  UNION {Range(ExtractedLines[topic][url][outcome]) :
           topic \in ArticleTopics, url \in ResultUrls,
           outcome \in FetchOutcomes}

\* self.is_generic_content(content) and self.is_fallback_content(content)
\* over those lines, tabulated once.
IsGeneric == [content \in ContentLines |-> is_generic_content(content)]
IsFallback == [content \in ContentLines |-> is_fallback_content(content)]

\* html.escape(s), quote=True
html_escape_char(c) ==
  CASE c = "&" -> <<"&","a","m","p",";">>
    [] c = "<" -> <<"&","l","t",";">>
    [] c = ">" -> <<"&","g","t",";">>
    [] c = "\"" -> <<"&","q","u","o","t",";">>
    [] c = "'" -> <<"&","#","x","2","7",";">>
    [] OTHER -> <<c>>

\* s.replace(...) of every character, by halves
RECURSIVE html_escape(_)
html_escape(s) ==
  IF s = << >>
  THEN << >>
  ELSE IF Len(s) = 1
  THEN html_escape_char(s[1])
  ELSE html_escape(SubSeq(s, 1, Len(s) \div 2))
         \o html_escape(SubSeq(s, Len(s) \div 2 + 1, Len(s)))

\* all_content: the lines of every entry of website_content, in order
RECURSIVE all_content_of(_)
all_content_of(content) ==
  IF content = << >>
  THEN << >>
  ELSE Head(content).lines \o all_content_of(Tail(content))

\* for content in contents: if len(content) > min_len and not
\* self.is_generic_content(content): ... break
first_substantial(contents, min_len) ==
  LET fit == {i \in DOMAIN contents :
                /\ Len(contents[i]) > min_len
                /\ ~IsGeneric[contents[i]]}
  IN  IF fit = {}
      THEN None
      ELSE contents[CHOOSE i \in fit : \A k \in fit : i <= k]

extract_key_details(content) ==
  LET all_content == all_content_of(content)
      lead == first_substantial(all_content, 100)
      background == first_substantial(Tail(all_content), 80)
      additional == first_substantial(Tail(Tail(all_content)), 80)
  IN  [lead_info |->
         IF all_content # << >> /\ lead # None
         THEN Truncate(lead, 400) ELSE None,
       background |->
         IF Len(all_content) > 1 /\ background # None
         THEN Truncate(background, 350) ELSE None,
       additional_content |->
         IF Len(all_content) > 2 /\ additional # None
         THEN Truncate(additional, 300) ELSE None]

\* expand_paragraph: additional_sentences of the paragraph type
additional_sentences(paragraph_type) ==
  CASE paragraph_type = "lead" ->
         << (* According to multiple sources familiar with the matter, t... *)
               <<"A","c","c","o","r","d","i","n","g"," ","t","o"," ","m",
                  "u","l","t","i","p","l","e"," ","s","o","u","r","c","e",
                  "s"," ","f","a","m","i","l","i","a","r"," ","w","i","t",
                  "h"," ","t","h","e"," ","m","a","t","t","e","r",","," ",
                  "t","h","e"," ","s","i","t","u","a","t","i","o","n"," ",
                  "h","a","s"," ","b","e","e","n"," ","d","e","v","e","l",
                  "o","p","i","n","g"," ","r","a","p","i","d","l","y"," ",
                  "o","v","e","r"," ","t","h","e"," ","p","a","s","t"," ",
                  "s","e","v","e","r","a","l"," ","h","o","u","r","s",".">>,
            (* Local authorities have confirmed they are treating this a... *)
               <<"L","o","c","a","l"," ","a","u","t","h","o","r","i","t",
                  "i","e","s"," ","h","a","v","e"," ","c","o","n","f","i",
                  "r","m","e","d"," ","t","h","e","y"," ","a","r","e"," ",
                  "t","r","e","a","t","i","n","g"," ","t","h","i","s"," ",
                  "a","s"," ","a"," ","h","i","g","h","-","p","r","i","o",
                  "r","i","t","y"," ","i","n","c","i","d","e","n","t"," ",
                  "r","e","q","u","i","r","i","n","g"," ","i","m","m","e",
                  "d","i","a","t","e"," ","a","t","t","e","n","t","i","o",
                  "n",".">>,
            (* Preliminary reports suggest the circumstances surrounding... *)
               <<"P","r","e","l","i","m","i","n","a","r","y"," ","r","e",
                  "p","o","r","t","s"," ","s","u","g","g","e","s","t"," ",
                  "t","h","e"," ","c","i","r","c","u","m","s","t","a","n",
                  "c","e","s"," ","s","u","r","r","o","u","n","d","i","n",
                  "g"," ","t","h","e"," ","e","v","e","n","t"," ","a","r",
                  "e"," ","c","o","m","p","l","e","x"," ","a","n","d"," ",
                  "s","t","i","l","l"," ","b","e","i","n","g"," ","i","n",
                  "v","e","s","t","i","g","a","t","e","d",".">> >>
    [] paragraph_type = "background" ->
         << (* The incident comes at a time when public attention has be... *)
               <<"T","h","e"," ","i","n","c","i","d","e","n","t"," ","c",
                  "o","m","e","s"," ","a","t"," ","a"," ","t","i","m","e",
                  " ","w","h","e","n"," ","p","u","b","l","i","c"," ","a",
                  "t","t","e","n","t","i","o","n"," ","h","a","s"," ","b",
                  "e","e","n"," ","f","o","c","u","s","e","d"," ","o","n",
                  " ","s","i","m","i","l","a","r"," ","i","s","s","u","e",
                  "s"," ","i","n"," ","t","h","e"," ","r","e","g","i","o",
                  "n",".">>,
            (* Experts note that such developments often require careful... *)
               <<"E","x","p","e","r","t","s"," ","n","o","t","e"," ","t",
                  "h","a","t"," ","s","u","c","h"," ","d","e","v","e","l",
                  "o","p","m","e","n","t","s"," ","o","f","t","e","n"," ",
                  "r","e","q","u","i","r","e"," ","c","a","r","e","f","u",
                  "l"," ","a","n","a","l","y","s","i","s"," ","t","o"," ",
                  "u","n","d","e","r","s","t","a","n","d"," ","t","h","e",
                  "i","r"," ","f","u","l","l"," ","i","m","p","l","i","c",
                  "a","t","i","o","n","s",".">>,
            (* Historical precedents suggest that resolution of such mat... *)
               <<"H","i","s","t","o","r","i","c","a","l"," ","p","r","e",
                  "c","e","d","e","n","t","s"," ","s","u","g","g","e","s",
                  "t"," ","t","h","a","t"," ","r","e","s","o","l","u","t",
                  "i","o","n"," ","o","f"," ","s","u","c","h"," ","m","a",
                  "t","t","e","r","s"," ","t","y","p","i","c","a","l","l",
                  "y"," ","i","n","v","o","l","v","e","s"," ","m","u","l",
                  "t","i","p","l","e"," ","s","t","a","k","e","h","o","l",
                  "d","e","r","s"," ","w","o","r","k","i","n","g"," ","t",
                  "o","g","e","t","h","e","r",".">> >>
    [] paragraph_type = "details" ->
         << (* Witness accounts and official reports are being carefully... *)
               <<"W","i","t","n","e","s","s"," ","a","c","c","o","u","n",
                  "t","s"," ","a","n","d"," ","o","f","f","i","c","i","a",
                  "l"," ","r","e","p","o","r","t","s"," ","a","r","e"," ",
                  "b","e","i","n","g"," ","c","a","r","e","f","u","l","l",
                  "y"," ","r","e","v","i","e","w","e","d"," ","t","o"," ",
                  "e","s","t","a","b","l","i","s","h"," ","a","n"," ","a",
                  "c","c","u","r","a","t","e"," ","t","i","m","e","l","i",
                  "n","e"," ","o","f"," ","e","v","e","n","t","s",".">>,
            (* The complexity of the situation has required coordination... *)
               <<"T","h","e"," ","c","o","m","p","l","e","x","i","t","y",
                  " ","o","f"," ","t","h","e"," ","s","i","t","u","a","t",
                  "i","o","n"," ","h","a","s"," ","r","e","q","u","i","r",
                  "e","d"," ","c","o","o","r","d","i","n","a","t","i","o",
                  "n"," ","b","e","t","w","e","e","n"," ","v","a","r","i",
                  "o","u","s"," ","a","g","e","n","c","i","e","s"," ","a",
                  "n","d"," ","d","e","p","a","r","t","m","e","n","t","s",
                  ".">>,
            (* Technical specialists have been brought in to assist with... *)
               <<"T","e","c","h","n","i","c","a","l"," ","s","p","e","c",
                  "i","a","l","i","s","t","s"," ","h","a","v","e"," ","b",
                  "e","e","n"," ","b","r","o","u","g","h","t"," ","i","n",
                  " ","t","o"," ","a","s","s","i","s","t"," ","w","i","t",
                  "h"," ","t","h","e"," ","i","n","v","e","s","t","i","g",
                  "a","t","i","o","n"," ","a","n","d"," ","e","n","s","u",
                  "r","e"," ","a","l","l"," ","r","e","l","e","v","a","n",
                  "t"," ","e","v","i","d","e","n","c","e"," ","i","s"," ",
                  "p","r","o","p","e","r","l","y"," ","e","x","a","m","i",
                  "n","e","d",".">> >>
    [] OTHER ->
         << (* The full impact of these developments is expected to beco... *)
               <<"T","h","e"," ","f","u","l","l"," ","i","m","p","a","c",
                  "t"," ","o","f"," ","t","h","e","s","e"," ","d","e","v",
                  "e","l","o","p","m","e","n","t","s"," ","i","s"," ","e",
                  "x","p","e","c","t","e","d"," ","t","o"," ","b","e","c",
                  "o","m","e"," ","c","l","e","a","r","e","r"," ","i","n",
                  " ","t","h","e"," ","c","o","m","i","n","g"," ","d","a",
                  "y","s",".">>,
            (* Stakeholders are expected to meet regularly to monitor pr... *)
               <<"S","t","a","k","e","h","o","l","d","e","r","s"," ","a",
                  "r","e"," ","e","x","p","e","c","t","e","d"," ","t","o",
                  " ","m","e","e","t"," ","r","e","g","u","l","a","r","l",
                  "y"," ","t","o"," ","m","o","n","i","t","o","r"," ","p",
                  "r","o","g","r","e","s","s"," ","a","n","d"," ","c","o",
                  "o","r","d","i","n","a","t","e"," ","t","h","e","i","r",
                  " ","r","e","s","p","o","n","s","e","s",".">> >>

\* random.sample(additional_sentences, 2): two different positions of the
\* list, in the order drawn.
AllSamples ==
  <<(1 :> 1 @@ 2 :> 2), (1 :> 3 @@ 2 :> 1), (1 :> 2 @@ 2 :> 3),
    (1 :> 2 @@ 2 :> 1), (1 :> 1 @@ 2 :> 3), (1 :> 3 @@ 2 :> 2)>>

\* The samples drawn in the model.
Samples ==
  {AllSamples[i] :
     i \in 1..(IF MaxSamples < Len(AllSamples)
               THEN MaxSamples ELSE Len(AllSamples))}

\* expand_paragraph, with the sample random.sample drew
expand_paragraph(base_content, paragraph_type, sample) ==
  base_content
    \o <<" ">> \o additional_sentences(paragraph_type)[sample[1]]
    \o <<" ">> \o additional_sentences(paragraph_type)[sample[2]]

generate_expanded_contextual_lead(topic) ==
  LET title_lower == str_lower(topic.title)
  IN  IF \/ Contains(title_lower, <<"p","o","l","i","c","e">>)
         \/ Contains(title_lower, <<"i","n","v","e","s","t","i","g","a","t","i","o","n">>)
      THEN (* Law enforcement officials are investigating {title_lower}... *)
           <<"L","a","w"," ","e","n","f","o","r","c","e","m","e","n","t",
              " ","o","f","f","i","c","i","a","l","s"," ","a","r","e"," ",
              "i","n","v","e","s","t","i","g","a","t","i","n","g"," ">>
           \o title_lower
           \o <<","," ","a","c","c","o","r","d","i","n","g"," ","t","o"," ",
              "s","o","u","r","c","e","s"," ","f","a","m","i","l","i","a",
              "r"," ","w","i","t","h"," ","t","h","e"," ","m","a","t","t",
              "e","r",".">>
           \o (* The investigation marks a significant development in the ... *)
           <<" ","T","h","e"," ","i","n","v","e","s","t","i","g","a","t",
              "i","o","n"," ","m","a","r","k","s"," ","a"," ","s","i","g",
              "n","i","f","i","c","a","n","t"," ","d","e","v","e","l","o",
              "p","m","e","n","t"," ","i","n"," ","t","h","e"," ","o","n",
              "g","o","i","n","g"," ","c","a","s","e",","," ","w","i","t",
              "h"," ","m","u","l","t","i","p","l","e"," ","d","e","p","a",
              "r","t","m","e","n","t","s"," ","c","o","o","r","d","i","n",
              "a","t","i","n","g"," ","t","h","e","i","r"," ","e","f","f",
              "o","r","t","s","."," ","S","e","n","i","o","r"," ","i","n",
              "v","e","s","t","i","g","a","t","o","r","s"," ","h","a","v",
              "e"," ","b","e","e","n"," ","a","s","s","i","g","n","e","d",
              " ","t","o"," ","o","v","e","r","s","e","e"," ","t","h","e",
              " ","i","n","q","u","i","r","y",","," ","w","h","i","c","h",
              " ","i","s"," ","b","e","i","n","g"," ","c","o","n","d","u",
              "c","t","e","d"," ","w","i","t","h"," ","u","r","g","e","n",
              "c","y"," ","g","i","v","e","n"," ","t","h","e"," ","p","u",
              "b","l","i","c"," ","i","n","t","e","r","e","s","t","."," ",
              "O","f","f","i","c","i","a","l","s"," ","h","a","v","e"," ",
              "i","n","d","i","c","a","t","e","d"," ","t","h","a","t"," ",
              "a","l","l"," ","a","v","a","i","l","a","b","l","e"," ","r",
              "e","s","o","u","r","c","e","s"," ","a","r","e"," ","b","e",
              "i","n","g"," ","d","e","p","l","o","y","e","d"," ","t","o",
              " ","e","n","s","u","r","e"," ","a"," ","t","h","o","r","o",
              "u","g","h"," ","a","n","d"," ","c","o","m","p","r","e","h",
              "e","n","s","i","v","e"," ","i","n","v","e","s","t","i","g",
              "a","t","i","o","n","."," ","T","h","e"," ","c","a","s","e",
              " ","h","a","s"," ","b","e","e","n"," ","c","l","a","s","s",
              "i","f","i","e","d"," ","a","s"," ","h","i","g","h"," ","p",
              "r","i","o","r","i","t","y",","," ","w","i","t","h"," ","r",
              "e","g","u","l","a","r"," ","b","r","i","e","f","i","n","g",
              "s"," ","s","c","h","e","d","u","l","e","d"," ","t","o"," ",
              "k","e","e","p"," ","s","t","a","k","e","h","o","l","d","e",
              "r","s"," ","i","n","f","o","r","m","e","d"," ","o","f"," ",
              "p","r","o","g","r","e","s","s",".">>
      ELSE IF \/ Contains(title_lower, <<"d","e","a","d">>)
              \/ Contains(title_lower, <<"k","i","l","l","e","d">>)
              \/ Contains(title_lower, <<"d","i","e","d">>)
      THEN (* Multiple fatalities have been reported in an incident inv... *)
           <<"M","u","l","t","i","p","l","e"," ","f","a","t","a","l","i",
              "t","i","e","s"," ","h","a","v","e"," ","b","e","e","n"," ",
              "r","e","p","o","r","t","e","d"," ","i","n"," ","a","n"," ",
              "i","n","c","i","d","e","n","t"," ","i","n","v","o","l","v",
              "i","n","g"," ">>
           \o title_lower
           \o <<".">>
           \o (* Emergency services responded to the scene as authorities ... *)
           <<" ","E","m","e","r","g","e","n","c","y"," ","s","e","r","v",
              "i","c","e","s"," ","r","e","s","p","o","n","d","e","d"," ",
              "t","o"," ","t","h","e"," ","s","c","e","n","e"," ","a","s",
              " ","a","u","t","h","o","r","i","t","i","e","s"," ","w","o",
              "r","k"," ","t","o"," ","d","e","t","e","r","m","i","n","e",
              " ","t","h","e"," ","f","u","l","l"," ","s","c","o","p","e",
              " ","o","f"," ","t","h","e"," ","s","i","t","u","a","t","i",
              "o","n","."," ","F","i","r","s","t"," ","r","e","s","p","o",
              "n","d","e","r","s"," ","a","r","r","i","v","e","d"," ","w",
              "i","t","h","i","n"," ","m","i","n","u","t","e","s"," ","o",
              "f"," ","r","e","c","e","i","v","i","n","g"," ","t","h","e",
              " ","i","n","i","t","i","a","l"," ","e","m","e","r","g","e",
              "n","c","y"," ","c","a","l","l","s",","," ","i","m","m","e",
              "d","i","a","t","e","l","y"," ","s","e","c","u","r","i","n",
              "g"," ","t","h","e"," ","a","r","e","a"," ","a","n","d"," ",
              "b","e","g","i","n","n","i","n","g"," ","r","e","s","c","u",
              "e"," ","o","p","e","r","a","t","i","o","n","s","."," ","M",
              "e","d","i","c","a","l"," ","p","e","r","s","o","n","n","e",
              "l"," ","w","o","r","k","e","d"," ","t","i","r","e","l","e",
              "s","s","l","y"," ","t","o"," ","p","r","o","v","i","d","e",
              " ","a","s","s","i","s","t","a","n","c","e"," ","w","h","i",
              "l","e"," ","l","a","w"," ","e","n","f","o","r","c","e","m",
              "e","n","t"," ","e","s","t","a","b","l","i","s","h","e","d",
              " ","a"," ","p","e","r","i","m","e","t","e","r"," ","t","o",
              " ","p","r","e","s","e","r","v","e"," ","e","v","i","d","e",
              "n","c","e","."," ","T","h","e"," ","i","n","c","i","d","e",
              "n","t"," ","h","a","s"," ","p","r","o","m","p","t","e","d",
              " ","a","n"," ","i","m","m","e","d","i","a","t","e"," ","r",
              "e","v","i","e","w"," ","o","f"," ","e","m","e","r","g","e",
              "n","c","y"," ","r","e","s","p","o","n","s","e"," ","p","r",
              "o","t","o","c","o","l","s"," ","a","n","d"," ","s","a","f",
              "e","t","y"," ","m","e","a","s","u","r","e","s",".">>
      ELSE IF \/ Contains(title_lower, <<"g","o","v","e","r","n","m","e","n","t">>)
              \/ Contains(title_lower, <<"m","i","n","i","s","t","e","r">>)
              \/ Contains(title_lower, <<"p","r","e","s","i","d","e","n","t">>)
      THEN (* Senior government officials are addressing {title_lower},... *)
           <<"S","e","n","i","o","r"," ","g","o","v","e","r","n","m","e",
              "n","t"," ","o","f","f","i","c","i","a","l","s"," ","a","r",
              "e"," ","a","d","d","r","e","s","s","i","n","g"," ">>
           \o title_lower
           \o <<","," ","m","a","r","k","i","n","g"," ","a"," ","s","i","g",
              "n","i","f","i","c","a","n","t"," ","p","o","l","i","c","y",
              " ","d","e","v","e","l","o","p","m","e","n","t",".">>
           \o (* The announcement comes amid ongoing discussions about the... *)
           <<" ","T","h","e"," ","a","n","n","o","u","n","c","e","m","e",
              "n","t"," ","c","o","m","e","s"," ","a","m","i","d"," ","o",
              "n","g","o","i","n","g"," ","d","i","s","c","u","s","s","i",
              "o","n","s"," ","a","b","o","u","t"," ","t","h","e"," ","i",
              "s","s","u","e"," ","a","n","d"," ","r","e","p","r","e","s",
              "e","n","t","s"," ","a"," ","m","a","j","o","r"," ","s","h",
              "i","f","t"," ","i","n"," ","o","f","f","i","c","i","a","l",
              " ","p","o","l","i","c","y","."," ","C","a","b","i","n","e",
              "t"," ","m","e","m","b","e","r","s"," ","h","a","v","e"," ",
              "b","e","e","n"," ","b","r","i","e","f","e","d"," ","e","x",
              "t","e","n","s","i","v","e","l","y"," ","o","n"," ","t","h",
              "e"," ","i","m","p","l","i","c","a","t","i","o","n","s"," ",
              "o","f"," ","t","h","i","s"," ","d","e","c","i","s","i","o",
              "n",","," ","w","i","t","h"," ","i","n","t","e","r","-","d",
              "e","p","a","r","t","m","e","n","t","a","l"," ","c","o","n",
              "s","u","l","t","a","t","i","o","n","s"," ","c","o","n","t",
              "i","n","u","i","n","g","."," ","T","h","e"," ","t","i","m",
              "i","n","g"," ","o","f"," ","t","h","i","s"," ","a","n","n",
              "o","u","n","c","e","m","e","n","t"," ","r","e","f","l","e",
              "c","t","s"," ","c","a","r","e","f","u","l"," ","c","o","n",
              "s","i","d","e","r","a","t","i","o","n"," ","o","f"," ","v",
              "a","r","i","o","u","s"," ","f","a","c","t","o","r","s",",",
              " ","i","n","c","l","u","d","i","n","g"," ","p","u","b","l",
              "i","c"," ","o","p","i","n","i","o","n"," ","a","n","d"," ",
              "e","x","p","e","r","t"," ","r","e","c","o","m","m","e","n",
              "d","a","t","i","o","n","s","."," ","O","f","f","i","c","i",
              "a","l","s"," ","h","a","v","e"," ","e","m","p","h","a","s",
              "i","z","e","d"," ","t","h","e","i","r"," ","c","o","m","m",
              "i","t","m","e","n","t"," ","t","o"," ","t","r","a","n","s",
              "p","a","r","e","n","c","y"," ","t","h","r","o","u","g","h",
              "o","u","t"," ","t","h","e"," ","i","m","p","l","e","m","e",
              "n","t","a","t","i","o","n"," ","p","r","o","c","e","s","s",
              ".">>
      ELSE IF \/ Contains(title_lower, <<"c","o","u","r","t">>)
              \/ Contains(title_lower, <<"t","r","i","a","l">>)
              \/ Contains(title_lower, <<"l","a","w","s","u","i","t">>)
      THEN (* Legal proceedings are underway regarding {title_lower}. *)
           <<"L","e","g","a","l"," ","p","r","o","c","e","e","d","i","n",
              "g","s"," ","a","r","e"," ","u","n","d","e","r","w","a","y",
              " ","r","e","g","a","r","d","i","n","g"," ">>
           \o title_lower
           \o <<".">>
           \o (* The court case has drawn attention from legal experts and... *)
           <<" ","T","h","e"," ","c","o","u","r","t"," ","c","a","s","e",
              " ","h","a","s"," ","d","r","a","w","n"," ","a","t","t","e",
              "n","t","i","o","n"," ","f","r","o","m"," ","l","e","g","a",
              "l"," ","e","x","p","e","r","t","s"," ","a","n","d"," ","c",
              "o","u","l","d"," ","s","e","t"," ","i","m","p","o","r","t",
              "a","n","t"," ","p","r","e","c","e","d","e","n","t","s"," ",
              "f","o","r"," ","f","u","t","u","r","e"," ","s","i","m","i",
              "l","a","r"," ","c","a","s","e","s","."," ","B","o","t","h",
              " ","p","r","o","s","e","c","u","t","i","o","n"," ","a","n",
              "d"," ","d","e","f","e","n","s","e"," ","t","e","a","m","s",
              " ","h","a","v","e"," ","b","e","e","n"," ","p","r","e","p",
              "a","r","i","n","g"," ","e","x","t","e","n","s","i","v","e",
              "l","y",","," ","w","i","t","h"," ","n","u","m","e","r","o",
              "u","s"," ","p","r","e","-","t","r","i","a","l"," ","m","o",
              "t","i","o","n","s"," ","f","i","l","e","d"," ","o","v","e",
              "r"," ","r","e","c","e","n","t"," ","w","e","e","k","s",".",
              " ","T","h","e"," ","j","u","d","g","e"," ","h","a","s"," ",
              "e","m","p","h","a","s","i","z","e","d"," ","t","h","e"," ",
              "i","m","p","o","r","t","a","n","c","e"," ","o","f"," ","c",
              "o","n","d","u","c","t","i","n","g"," ","a"," ","f","a","i",
              "r"," ","a","n","d"," ","t","h","o","r","o","u","g","h"," ",
              "h","e","a","r","i","n","g",","," ","w","i","t","h"," ","s",
              "t","r","i","c","t"," ","a","d","h","e","r","e","n","c","e",
              " ","t","o"," ","l","e","g","a","l"," ","p","r","o","c","e",
              "d","u","r","e","s","."," ","C","o","u","r","t"," ","o","f",
              "f","i","c","i","a","l","s"," ","h","a","v","e"," ","i","m",
              "p","l","e","m","e","n","t","e","d"," ","a","d","d","i","t",
              "i","o","n","a","l"," ","s","e","c","u","r","i","t","y"," ",
              "m","e","a","s","u","r","e","s"," ","g","i","v","e","n"," ",
              "t","h","e"," ","h","i","g","h"," ","l","e","v","e","l"," ",
              "o","f"," ","p","u","b","l","i","c"," ","i","n","t","e","r",
              "e","s","t"," ","i","n"," ","t","h","e"," ","c","a","s","e",
              ".">>
      ELSE (* Authorities are responding to developments involving {tit... *)
           <<"A","u","t","h","o","r","i","t","i","e","s"," ","a","r","e",
              " ","r","e","s","p","o","n","d","i","n","g"," ","t","o"," ",
              "d","e","v","e","l","o","p","m","e","n","t","s"," ","i","n",
              "v","o","l","v","i","n","g"," ">>
           \o title_lower
           \o <<".">>
           \o (* The situation has prompted immediate action from relevant... *)
           <<" ","T","h","e"," ","s","i","t","u","a","t","i","o","n"," ",
              "h","a","s"," ","p","r","o","m","p","t","e","d"," ","i","m",
              "m","e","d","i","a","t","e"," ","a","c","t","i","o","n"," ",
              "f","r","o","m"," ","r","e","l","e","v","a","n","t"," ","a",
              "g","e","n","c","i","e","s"," ","a","n","d"," ","c","o","n",
              "t","i","n","u","e","s"," ","t","o"," ","e","v","o","l","v",
              "e"," ","a","s"," ","n","e","w"," ","i","n","f","o","r","m",
              "a","t","i","o","n"," ","b","e","c","o","m","e","s"," ","a",
              "v","a","i","l","a","b","l","e","."," ","M","u","l","t","i",
              "p","l","e"," ","d","e","p","a","r","t","m","e","n","t","s",
              " ","a","r","e"," ","c","o","o","r","d","i","n","a","t","i",
              "n","g"," ","t","h","e","i","r"," ","r","e","s","p","o","n",
              "s","e"," ","e","f","f","o","r","t","s"," ","t","o"," ","e",
              "n","s","u","r","e"," ","a","l","l"," ","n","e","c","e","s",
              "s","a","r","y"," ","m","e","a","s","u","r","e","s"," ","a",
              "r","e"," ","i","m","p","l","e","m","e","n","t","e","d"," ",
              "e","f","f","e","c","t","i","v","e","l","y","."," ","O","f",
              "f","i","c","i","a","l","s"," ","h","a","v","e"," ","e","s",
              "t","a","b","l","i","s","h","e","d"," ","a"," ","c","o","m",
              "m","a","n","d"," ","c","e","n","t","e","r"," ","t","o"," ",
              "o","v","e","r","s","e","e"," ","o","p","e","r","a","t","i",
              "o","n","s"," ","a","n","d"," ","m","a","i","n","t","a","i",
              "n"," ","r","e","g","u","l","a","r"," ","c","o","m","m","u",
              "n","i","c","a","t","i","o","n"," ","w","i","t","h"," ","a",
              "l","l"," ","s","t","a","k","e","h","o","l","d","e","r","s",
              "."," ","T","h","e"," ","p","u","b","l","i","c"," ","i","s",
              " ","b","e","i","n","g"," ","k","e","p","t"," ","i","n","f",
              "o","r","m","e","d"," ","t","h","r","o","u","g","h"," ","r",
              "e","g","u","l","a","r"," ","u","p","d","a","t","e","s"," ",
              "a","s"," ","t","h","e"," ","s","i","t","u","a","t","i","o",
              "n"," ","d","e","v","e","l","o","p","s",".">>

generate_expanded_contextual_background(topic, content) ==
  LET sources == [i \in DOMAIN content |-> content[i].domain]
  IN  (* The incident has raised questions about broader systemic ... *)
      <<"T","h","e"," ","i","n","c","i","d","e","n","t"," ","h","a","s",
         " ","r","a","i","s","e","d"," ","q","u","e","s","t","i","o","n",
         "s"," ","a","b","o","u","t"," ","b","r","o","a","d","e","r"," ",
         "s","y","s","t","e","m","i","c"," ","i","s","s","u","e","s"," ",
         "a","n","d"," ","s","a","f","e","t","y"," ","p","r","o","t","o",
         "c","o","l","s",".">>
      \o (IF sources # << >>
          THEN (* Reports from {str_of_int(Len(sources))} different news so... *)
               <<" ","R","e","p","o","r","t","s"," ","f","r","o","m"," "
                  >>
               \o str_of_int(Len(sources))
               \o <<" ","d","i","f","f","e","r","e","n","t"," ","n","e","w",
                  "s"," ","s","o","u","r","c","e","s"," ","h","a","v","e",
                  " ","p","r","o","v","i","d","e","d"," ","v","a","r","y",
                  "i","n","g"," ","p","e","r","s","p","e","c","t","i","v",
                  "e","s"," ","o","n"," ","t","h","e"," ","d","e","v","e",
                  "l","o","p","i","n","g"," ","s","i","t","u","a","t","i",
                  "o","n",","," ","h","i","g","h","l","i","g","h","t","i",
                  "n","g"," ","t","h","e"," ","c","o","m","p","l","e","x",
                  "i","t","y"," ","o","f"," ","t","h","e"," ","i","s","s",
                  "u","e","s"," ","i","n","v","o","l","v","e","d","."," ",
                  "J","o","u","r","n","a","l","i","s","t","s"," ","a","n",
                  "d"," ","a","n","a","l","y","s","t","s"," ","h","a","v",
                  "e"," ","b","e","e","n"," ","w","o","r","k","i","n","g",
                  " ","t","o"," ","p","i","e","c","e"," ","t","o","g","e",
                  "t","h","e","r"," ","a"," ","c","o","m","p","r","e","h",
                  "e","n","s","i","v","e"," ","u","n","d","e","r","s","t",
                  "a","n","d","i","n","g"," ","o","f"," ","t","h","e"," ",
                  "e","v","e","n","t","s",","," ","d","r","a","w","i","n",
                  "g"," ","o","n"," ","m","u","l","t","i","p","l","e"," ",
                  "w","i","t","n","e","s","s"," ","a","c","c","o","u","n",
                  "t","s"," ","a","n","d"," ","o","f","f","i","c","i","a",
                  "l"," ","s","t","a","t","e","m","e","n","t","s","."," ",
                  "T","h","e"," ","c","o","v","e","r","a","g","e"," ","h",
                  "a","s"," ","r","e","v","e","a","l","e","d"," ","i","m",
                  "p","o","r","t","a","n","t"," ","d","e","t","a","i","l",
                  "s"," ","a","b","o","u","t"," ","t","h","e"," ","c","i",
                  "r","c","u","m","s","t","a","n","c","e","s"," ","l","e",
                  "a","d","i","n","g"," ","u","p"," ","t","o"," ","t","h",
                  "e"," ","i","n","c","i","d","e","n","t",","," ","a","s",
                  " ","w","e","l","l"," ","a","s"," ","t","h","e"," ","i",
                  "m","m","e","d","i","a","t","e"," ","r","e","s","p","o",
                  "n","s","e"," ","f","r","o","m"," ","a","u","t","h","o",
                  "r","i","t","i","e","s","."," ","E","x","p","e","r","t",
                  "s"," ","n","o","t","e"," ","t","h","a","t"," ","s","u",
                  "c","h"," ","m","u","l","t","i","-","s","o","u","r","c",
                  "e"," ","r","e","p","o","r","t","i","n","g"," ","i","s",
                  " ","c","r","u","c","i","a","l"," ","f","o","r"," ","e",
                  "s","t","a","b","l","i","s","h","i","n","g"," ","a","n",
                  " ","a","c","c","u","r","a","t","e"," ","a","n","d"," ",
                  "c","o","m","p","l","e","t","e"," ","p","i","c","t","u",
                  "r","e"," ","o","f"," ","c","o","m","p","l","e","x"," ",
                  "e","v","e","n","t","s",".">>
          ELSE (* Officials are reviewing existing procedures to prevent si... *)
               <<" ","O","f","f","i","c","i","a","l","s"," ","a","r","e",
                  " ","r","e","v","i","e","w","i","n","g"," ","e","x","i",
                  "s","t","i","n","g"," ","p","r","o","c","e","d","u","r",
                  "e","s"," ","t","o"," ","p","r","e","v","e","n","t"," ",
                  "s","i","m","i","l","a","r"," ","o","c","c","u","r","r",
                  "e","n","c","e","s"," ","i","n"," ","t","h","e"," ","f",
                  "u","t","u","r","e",","," ","w","i","t","h"," ","p","a",
                  "r","t","i","c","u","l","a","r"," ","a","t","t","e","n",
                  "t","i","o","n"," ","t","o"," ","i","d","e","n","t","i",
                  "f","y","i","n","g"," ","a","n","y"," ","g","a","p","s",
                  " ","i","n"," ","c","u","r","r","e","n","t"," ","p","r",
                  "o","t","o","c","o","l","s","."," ","A"," ","c","o","m",
                  "p","r","e","h","e","n","s","i","v","e"," ","a","s","s",
                  "e","s","s","m","e","n","t"," ","i","s"," ","b","e","i",
                  "n","g"," ","c","o","n","d","u","c","t","e","d"," ","t",
                  "o"," ","e","x","a","m","i","n","e"," ","a","l","l"," ",
                  "r","e","l","e","v","a","n","t"," ","p","o","l","i","c",
                  "i","e","s"," ","a","n","d"," ","p","r","o","c","e","d",
                  "u","r","e","s",","," ","i","n","v","o","l","v","i","n",
                  "g"," ","c","o","n","s","u","l","t","a","t","i","o","n",
                  " ","w","i","t","h"," ","s","u","b","j","e","c","t"," ",
                  "m","a","t","t","e","r"," ","e","x","p","e","r","t","s",
                  " ","a","n","d"," ","s","t","a","k","e","h","o","l","d",
                  "e","r","s","."," ","T","h","e"," ","r","e","v","i","e",
                  "w"," ","p","r","o","c","e","s","s"," ","i","s"," ","e",
                  "x","p","e","c","t","e","d"," ","t","o"," ","i","n","c",
                  "l","u","d","e"," ","r","e","c","o","m","m","e","n","d",
                  "a","t","i","o","n","s"," ","f","o","r"," ","i","m","p",
                  "r","o","v","e","m","e","n","t","s"," ","a","n","d"," ",
                  "u","p","d","a","t","e","s"," ","t","o"," ","e","x","i",
                  "s","t","i","n","g"," ","g","u","i","d","e","l","i","n",
                  "e","s","."," ","T","h","i","s"," ","s","y","s","t","e",
                  "m","a","t","i","c"," ","a","p","p","r","o","a","c","h",
                  " ","r","e","f","l","e","c","t","s"," ","t","h","e"," ",
                  "s","e","r","i","o","u","s","n","e","s","s"," ","w","i",
                  "t","h"," ","w","h","i","c","h"," ","a","u","t","h","o",
                  "r","i","t","i","e","s"," ","a","r","e"," ","t","r","e",
                  "a","t","i","n","g"," ","t","h","e"," ","s","i","t","u",
                  "a","t","i","o","n"," ","a","n","d"," ","t","h","e","i",
                  "r"," ","c","o","m","m","i","t","m","e","n","t"," ","t",
                  "o"," ","p","r","e","v","e","n","t","i","n","g"," ","s",
                  "i","m","i","l","a","r"," ","i","n","c","i","d","e","n",
                  "t","s",".">>)

generate_expanded_detailed_analysis(topic) ==
  LET title_lower == str_lower(topic.title)
  IN  IF \/ Contains(title_lower, <<"p","o","l","i","c","e">>)
         \/ Contains(title_lower, <<"i","n","v","e","s","t","i","g","a","t","i","o","n">>)
      THEN (* The investigation involves multiple departments working t... *)
           <<"T","h","e"," ","i","n","v","e","s","t","i","g","a","t","i",
              "o","n"," ","i","n","v","o","l","v","e","s"," ","m","u","l",
              "t","i","p","l","e"," ","d","e","p","a","r","t","m","e","n",
              "t","s"," ","w","o","r","k","i","n","g"," ","t","o","g","e",
              "t","h","e","r"," ","t","o"," ","g","a","t","h","e","r"," ",
              "e","v","i","d","e","n","c","e"," ","a","n","d"," ","i","n",
              "t","e","r","v","i","e","w"," ","k","e","y"," ","w","i","t",
              "n","e","s","s","e","s",","," ","w","i","t","h"," ","c","o",
              "o","r","d","i","n","a","t","i","o","n"," ","o","v","e","r",
              "s","e","e","n"," ","b","y"," ","s","e","n","i","o","r"," ",
              "l","a","w"," ","e","n","f","o","r","c","e","m","e","n","t",
              " ","o","f","f","i","c","i","a","l","s","."," ","F","o","r",
              "e","n","s","i","c"," ","t","e","a","m","s"," ","h","a","v",
              "e"," ","b","e","e","n"," ","d","e","p","l","o","y","e","d",
              " ","t","o"," ","e","x","a","m","i","n","e"," ","a","l","l",
              " ","a","v","a","i","l","a","b","l","e"," ","e","v","i","d",
              "e","n","c","e",","," ","e","m","p","l","o","y","i","n","g",
              " ","a","d","v","a","n","c","e","d"," ","t","e","c","h","n",
              "i","q","u","e","s"," ","t","o"," ","e","n","s","u","r","e",
              " ","n","o"," ","c","r","u","c","i","a","l"," ","d","e","t",
              "a","i","l","s"," ","a","r","e"," ","o","v","e","r","l","o",
              "o","k","e","d","."," ","D","e","t","e","c","t","i","v","e",
              "s"," ","a","r","e"," ","f","o","l","l","o","w","i","n","g",
              " ","u","p"," ","o","n"," ","l","e","a","d","s"," ","p","r",
              "o","v","i","d","e","d"," ","b","y"," ","t","h","e"," ","p",
              "u","b","l","i","c",","," ","w","i","t","h"," ","a"," ","d",
              "e","d","i","c","a","t","e","d"," ","t","i","p"," ","l","i",
              "n","e"," ","e","s","t","a","b","l","i","s","h","e","d"," ",
              "t","o"," ","e","n","c","o","u","r","a","g","e"," ","c","o",
              "m","m","u","n","i","t","y"," ","c","o","o","p","e","r","a",
              "t","i","o","n","."," ","T","h","e"," ","c","a","s","e"," ",
              "h","a","s"," ","b","e","e","n"," ","a","s","s","i","g","n",
              "e","d"," ","h","i","g","h"," ","p","r","i","o","r","i","t",
              "y"," ","s","t","a","t","u","s"," ","g","i","v","e","n"," ",
              "i","t","s"," ","s","i","g","n","i","f","i","c","a","n","t",
              " ","p","u","b","l","i","c"," ","i","n","t","e","r","e","s",
              "t",","," ","w","i","t","h"," ","a","d","d","i","t","i","o",
              "n","a","l"," ","r","e","s","o","u","r","c","e","s"," ","a",
              "l","l","o","c","a","t","e","d"," ","t","o"," ","s","u","p",
              "p","o","r","t"," ","t","h","e"," ","i","n","v","e","s","t",
              "i","g","a","t","i","o","n","."," ","R","e","g","u","l","a",
              "r"," ","b","r","i","e","f","i","n","g","s"," ","a","r","e",
              " ","b","e","i","n","g"," ","h","e","l","d"," ","t","o"," ",
              "e","n","s","u","r","e"," ","a","l","l"," ","t","e","a","m",
              " ","m","e","m","b","e","r","s"," ","a","r","e"," ","u","p",
              "d","a","t","e","d"," ","o","n"," ","t","h","e"," ","l","a",
              "t","e","s","t"," ","d","e","v","e","l","o","p","m","e","n",
              "t","s"," ","a","n","d"," ","c","a","n"," ","a","d","j","u",
              "s","t"," ","t","h","e","i","r"," ","a","p","p","r","o","a",
              "c","h"," ","a","c","c","o","r","d","i","n","g","l","y",".">>
      ELSE IF \/ Contains(title_lower, <<"d","e","a","d">>)
              \/ Contains(title_lower, <<"k","i","l","l","e","d">>)
      THEN (* Emergency medical services arrived on scene within minute... *)
           <<"E","m","e","r","g","e","n","c","y"," ","m","e","d","i","c",
              "a","l"," ","s","e","r","v","i","c","e","s"," ","a","r","r",
              "i","v","e","d"," ","o","n"," ","s","c","e","n","e"," ","w",
              "i","t","h","i","n"," ","m","i","n","u","t","e","s"," ","o",
              "f"," ","t","h","e"," ","i","n","i","t","i","a","l"," ","r",
              "e","p","o","r","t","s",","," ","i","m","m","e","d","i","a",
              "t","e","l","y"," ","b","e","g","i","n","n","i","n","g"," ",
              "t","r","i","a","g","e"," ","a","n","d"," ","t","r","e","a",
              "t","m","e","n","t"," ","o","f"," ","i","n","j","u","r","e",
              "d"," ","i","n","d","i","v","i","d","u","a","l","s","."," ",
              "M","e","d","i","c","a","l"," ","p","e","r","s","o","n","n",
              "e","l"," ","w","o","r","k","e","d"," ","s","y","s","t","e",
              "m","a","t","i","c","a","l","l","y"," ","t","o"," ","t","r",
              "e","a","t"," ","t","h","e"," ","i","n","j","u","r","e","d",
              " ","w","h","i","l","e"," ","l","a","w"," ","e","n","f","o",
              "r","c","e","m","e","n","t"," ","s","e","c","u","r","e","d",
              " ","t","h","e"," ","a","r","e","a"," ","a","n","d"," ","b",
              "e","g","a","n"," ","c","o","l","l","e","c","t","i","n","g",
              " ","e","v","i","d","e","n","c","e","."," ","T","h","e"," ",
              "i","n","c","i","d","e","n","t"," ","h","a","s"," ","p","r",
              "o","m","p","t","e","d"," ","a"," ","c","o","m","p","r","e",
              "h","e","n","s","i","v","e"," ","r","e","v","i","e","w"," ",
              "o","f"," ","s","a","f","e","t","y"," ","p","r","o","t","o",
              "c","o","l","s"," ","a","n","d"," ","e","m","e","r","g","e",
              "n","c","y"," ","r","e","s","p","o","n","s","e"," ","p","r",
              "o","c","e","d","u","r","e","s",","," ","w","i","t","h"," ",
              "p","a","r","t","i","c","u","l","a","r"," ","f","o","c","u",
              "s"," ","o","n"," ","c","o","o","r","d","i","n","a","t","i",
              "o","n"," ","b","e","t","w","e","e","n"," ","d","i","f","f",
              "e","r","e","n","t"," ","r","e","s","p","o","n","s","e"," ",
              "a","g","e","n","c","i","e","s","."," ","M","e","d","i","c",
              "a","l"," ","e","x","a","m","i","n","e","r","s"," ","a","r",
              "e"," ","c","o","n","d","u","c","t","i","n","g"," ","t","h",
              "o","r","o","u","g","h"," ","i","n","v","e","s","t","i","g",
              "a","t","i","o","n","s"," ","t","o"," ","d","e","t","e","r",
              "m","i","n","e"," ","e","x","a","c","t"," ","c","a","u","s",
              "e","s"," ","a","n","d"," ","c","i","r","c","u","m","s","t",
              "a","n","c","e","s",","," ","w","o","r","k","i","n","g"," ",
              "c","l","o","s","e","l","y"," ","w","i","t","h"," ","l","a",
              "w"," ","e","n","f","o","r","c","e","m","e","n","t"," ","t",
              "o"," ","e","n","s","u","r","e"," ","a","l","l"," ","e","v",
              "i","d","e","n","c","e"," ","i","s"," ","p","r","o","p","e",
              "r","l","y"," ","d","o","c","u","m","e","n","t","e","d",".",
              " ","T","h","e"," ","r","e","s","p","o","n","s","e"," ","h",
              "a","s"," ","d","e","m","o","n","s","t","r","a","t","e","d",
              " ","t","h","e"," ","i","m","p","o","r","t","a","n","c","e",
              " ","o","f"," ","i","n","t","e","r","-","a","g","e","n","c",
              "y"," ","c","o","o","p","e","r","a","t","i","o","n"," ","a",
              "n","d"," ","t","h","e"," ","v","a","l","u","e"," ","o","f",
              " ","r","e","g","u","l","a","r"," ","e","m","e","r","g","e",
              "n","c","y"," ","p","r","e","p","a","r","e","d","n","e","s",
              "s"," ","t","r","a","i","n","i","n","g",".">>
      ELSE IF \/ Contains(title_lower, <<"g","o","v","e","r","n","m","e","n","t">>)
              \/ Contains(title_lower, <<"p","o","l","i","c","y">>)
      THEN (* The policy changes come after months of consultation with... *)
           <<"T","h","e"," ","p","o","l","i","c","y"," ","c","h","a","n",
              "g","e","s"," ","c","o","m","e"," ","a","f","t","e","r"," ",
              "m","o","n","t","h","s"," ","o","f"," ","c","o","n","s","u",
              "l","t","a","t","i","o","n"," ","w","i","t","h"," ","s","t",
              "a","k","e","h","o","l","d","e","r","s"," ","a","n","d"," ",
              "e","x","p","e","r","t"," ","a","n","a","l","y","s","i","s",
              ","," ","r","e","f","l","e","c","t","i","n","g"," ","c","a",
              "r","e","f","u","l"," ","c","o","n","s","i","d","e","r","a",
              "t","i","o","n"," ","o","f"," ","v","a","r","i","o","u","s",
              " ","p","e","r","s","p","e","c","t","i","v","e","s"," ","a",
              "n","d"," ","p","o","t","e","n","t","i","a","l"," ","i","m",
              "p","a","c","t","s","."," ","G","o","v","e","r","n","m","e",
              "n","t"," ","o","f","f","i","c","i","a","l","s"," ","h","a",
              "v","e"," ","b","e","e","n"," ","w","o","r","k","i","n","g",
              " ","c","l","o","s","e","l","y"," ","w","i","t","h"," ","v",
              "a","r","i","o","u","s"," ","d","e","p","a","r","t","m","e",
              "n","t","s"," ","t","o"," ","e","n","s","u","r","e"," ","s",
              "m","o","o","t","h"," ","i","m","p","l","e","m","e","n","t",
              "a","t","i","o","n",","," ","e","s","t","a","b","l","i","s",
              "h","i","n","g"," ","c","l","e","a","r"," ","t","i","m","e",
              "l","i","n","e","s"," ","a","n","d"," ","a","c","c","o","u",
              "n","t","a","b","i","l","i","t","y"," ","m","e","a","s","u",
              "r","e","s","."," ","T","h","e"," ","n","e","w"," ","m","e",
              "a","s","u","r","e","s"," ","a","r","e"," ","e","x","p","e",
              "c","t","e","d"," ","t","o"," ","h","a","v","e"," ","w","i",
              "d","e","-","r","a","n","g","i","n","g"," ","i","m","p","l",
              "i","c","a","t","i","o","n","s"," ","a","c","r","o","s","s",
              " ","m","u","l","t","i","p","l","e"," ","s","e","c","t","o",
              "r","s",","," ","w","i","t","h"," ","d","e","t","a","i","l",
              "e","d"," ","i","m","p","a","c","t"," ","a","s","s","e","s",
              "s","m","e","n","t","s"," ","c","o","n","d","u","c","t","e",
              "d"," ","t","o"," ","a","n","t","i","c","i","p","a","t","e",
              " ","p","o","t","e","n","t","i","a","l"," ","c","h","a","l",
              "l","e","n","g","e","s","."," ","C","o","n","s","u","l","t",
              "a","t","i","o","n"," ","s","e","s","s","i","o","n","s"," ",
              "h","a","v","e"," ","b","e","e","n"," ","h","e","l","d"," ",
              "w","i","t","h"," ","i","n","d","u","s","t","r","y"," ","r",
              "e","p","r","e","s","e","n","t","a","t","i","v","e","s",",",
              " ","a","d","v","o","c","a","c","y"," ","g","r","o","u","p",
              "s",","," ","a","n","d"," ","s","u","b","j","e","c","t"," ",
              "m","a","t","t","e","r"," ","e","x","p","e","r","t","s"," ",
              "t","o"," ","g","a","t","h","e","r"," ","i","n","p","u","t",
              " ","a","n","d"," ","r","e","f","i","n","e"," ","t","h","e",
              " ","p","r","o","p","o","s","e","d"," ","a","p","p","r","o",
              "a","c","h","."," ","I","m","p","l","e","m","e","n","t","a",
              "t","i","o","n"," ","w","i","l","l"," ","b","e"," ","p","h",
              "a","s","e","d"," ","t","o"," ","a","l","l","o","w"," ","f",
              "o","r"," ","a","d","j","u","s","t","m","e","n","t","s"," ",
              "b","a","s","e","d"," ","o","n"," ","i","n","i","t","i","a",
              "l"," ","r","e","s","u","l","t","s"," ","a","n","d"," ","f",
              "e","e","d","b","a","c","k"," ","f","r","o","m"," ","a","f",
              "f","e","c","t","e","d"," ","p","a","r","t","i","e","s",".">>
      ELSE (* Experts are analyzing the full implications of these deve... *)
           <<"E","x","p","e","r","t","s"," ","a","r","e"," ","a","n","a",
              "l","y","z","i","n","g"," ","t","h","e"," ","f","u","l","l",
              " ","i","m","p","l","i","c","a","t","i","o","n","s"," ","o",
              "f"," ","t","h","e","s","e"," ","d","e","v","e","l","o","p",
              "m","e","n","t","s"," ","a","s"," ","m","o","r","e"," ","d",
              "e","t","a","i","l","s"," ","e","m","e","r","g","e",","," ",
              "d","r","a","w","i","n","g"," ","o","n"," ","t","h","e","i",
              "r"," ","p","r","o","f","e","s","s","i","o","n","a","l"," ",
              "e","x","p","e","r","i","e","n","c","e"," ","a","n","d"," ",
              "k","n","o","w","l","e","d","g","e"," ","o","f"," ","s","i",
              "m","i","l","a","r"," ","s","i","t","u","a","t","i","o","n",
              "s","."," ","T","h","e"," ","s","i","t","u","a","t","i","o",
              "n"," ","h","a","s"," ","p","r","o","m","p","t","e","d"," ",
              "d","i","s","c","u","s","s","i","o","n","s"," ","a","m","o",
              "n","g"," ","s","p","e","c","i","a","l","i","s","t","s"," ",
              "a","b","o","u","t"," ","b","e","s","t"," ","p","r","a","c",
              "t","i","c","e","s"," ","a","n","d"," ","p","r","e","v","e",
              "n","t","i","v","e"," ","m","e","a","s","u","r","e","s",",",
              " ","w","i","t","h"," ","p","a","r","t","i","c","u","l","a",
              "r"," ","a","t","t","e","n","t","i","o","n"," ","t","o"," ",
              "l","e","s","s","o","n","s"," ","l","e","a","r","n","e","d",
              " ","f","r","o","m"," ","c","o","m","p","a","r","a","b","l",
              "e"," ","i","n","c","i","d","e","n","t","s","."," ","S","t",
              "a","k","e","h","o","l","d","e","r","s"," ","a","r","e"," ",
              "c","l","o","s","e","l","y"," ","m","o","n","i","t","o","r",
              "i","n","g"," ","t","h","e"," ","e","v","o","l","v","i","n",
              "g"," ","c","i","r","c","u","m","s","t","a","n","c","e","s",
              " ","t","o"," ","a","s","s","e","s","s"," ","p","o","t","e",
              "n","t","i","a","l"," ","i","m","p","a","c","t","s"," ","o",
              "n"," ","t","h","e","i","r"," ","o","p","e","r","a","t","i",
              "o","n","s"," ","a","n","d"," ","c","o","n","s","t","i","t",
              "u","e","n","c","i","e","s","."," ","T","e","c","h","n","i",
              "c","a","l"," ","c","o","n","s","u","l","t","a","n","t","s",
              " ","h","a","v","e"," ","b","e","e","n"," ","b","r","o","u",
              "g","h","t"," ","i","n"," ","t","o"," ","p","r","o","v","i",
              "d","e"," ","s","p","e","c","i","a","l","i","z","e","d"," ",
              "e","x","p","e","r","t","i","s","e"," ","a","n","d"," ","e",
              "n","s","u","r","e"," ","a","l","l"," ","r","e","l","e","v",
              "a","n","t"," ","f","a","c","t","o","r","s"," ","a","r","e",
              " ","p","r","o","p","e","r","l","y"," ","c","o","n","s","i",
              "d","e","r","e","d","."," ","T","h","e"," ","c","o","l","l",
              "a","b","o","r","a","t","i","v","e"," ","a","p","p","r","o",
              "a","c","h"," ","r","e","f","l","e","c","t","s"," ","t","h",
              "e"," ","c","o","m","p","l","e","x","i","t","y"," ","o","f",
              " ","t","h","e"," ","s","i","t","u","a","t","i","o","n"," ",
              "a","n","d"," ","t","h","e"," ","i","m","p","o","r","t","a",
              "n","c","e"," ","o","f"," ","b","r","i","n","g","i","n","g",
              " ","t","o","g","e","t","h","e","r"," ","d","i","v","e","r",
              "s","e"," ","p","e","r","s","p","e","c","t","i","v","e","s",
              " ","a","n","d"," ","e","x","p","e","r","t","i","s","e",".">>

generate_expanded_official_response(topic) ==
  LET title_lower == str_lower(topic.title)
  IN  IF Contains(title_lower, <<"p","o","l","i","c","e">>)
      THEN (* Police officials have issued a statement emphasizing thei... *)
           <<"P","o","l","i","c","e"," ","o","f","f","i","c","i","a","l",
              "s"," ","h","a","v","e"," ","i","s","s","u","e","d"," ","a",
              " ","s","t","a","t","e","m","e","n","t"," ","e","m","p","h",
              "a","s","i","z","i","n","g"," ","t","h","e","i","r"," ","c",
              "o","m","m","i","t","m","e","n","t"," ","t","o"," ","a"," ",
              "t","h","o","r","o","u","g","h"," ","a","n","d"," ","t","r",
              "a","n","s","p","a","r","e","n","t"," ","i","n","v","e","s",
              "t","i","g","a","t","i","o","n",","," ","o","u","t","l","i",
              "n","i","n","g"," ","t","h","e"," ","s","p","e","c","i","f",
              "i","c"," ","s","t","e","p","s"," ","b","e","i","n","g"," ",
              "t","a","k","e","n"," ","t","o"," ","e","n","s","u","r","e",
              " ","a","c","c","o","u","n","t","a","b","i","l","i","t","y",
              "."," ","A"," ","s","p","o","k","e","s","p","e","r","s","o",
              "n"," ","n","o","t","e","d"," ","t","h","a","t"," ","a","l",
              "l"," ","a","v","a","i","l","a","b","l","e"," ","r","e","s",
              "o","u","r","c","e","s"," ","a","r","e"," ","b","e","i","n",
              "g"," ","d","e","p","l","o","y","e","d"," ","t","o"," ","e",
              "n","s","u","r","e"," ","a"," ","c","o","m","p","r","e","h",
              "e","n","s","i","v","e"," ","i","n","q","u","i","r","y",",",
              " ","i","n","c","l","u","d","i","n","g"," ","s","p","e","c",
              "i","a","l","i","z","e","d"," ","u","n","i","t","s"," ","a",
              "n","d"," ","e","x","t","e","r","n","a","l"," ","e","x","p",
              "e","r","t","i","s","e"," ","w","h","e","r","e"," ","a","p",
              "p","r","o","p","r","i","a","t","e","."," ","T","h","e"," ",
              "d","e","p","a","r","t","m","e","n","t"," ","h","a","s"," ",
              "e","s","t","a","b","l","i","s","h","e","d"," ","a"," ","d",
              "e","d","i","c","a","t","e","d"," ","h","o","t","l","i","n",
              "e"," ","f","o","r"," ","a","n","y","o","n","e"," ","w","i",
              "t","h"," ","r","e","l","e","v","a","n","t"," ","i","n","f",
              "o","r","m","a","t","i","o","n"," ","t","o"," ","c","o","n",
              "t","a","c","t"," ","i","n","v","e","s","t","i","g","a","t",
              "o","r","s",","," ","s","t","a","f","f","e","d"," ","b","y",
              " ","t","r","a","i","n","e","d"," ","p","e","r","s","o","n",
              "n","e","l"," ","a","v","a","i","l","a","b","l","e"," ","a",
              "r","o","u","n","d"," ","t","h","e"," ","c","l","o","c","k",
              "."," ","S","e","n","i","o","r"," ","o","f","f","i","c","e",
              "r","s"," ","a","r","e"," ","p","r","o","v","i","d","i","n",
              "g"," ","r","e","g","u","l","a","r"," ","u","p","d","a","t",
              "e","s"," ","t","o"," ","d","e","p","a","r","t","m","e","n",
              "t"," ","l","e","a","d","e","r","s","h","i","p"," ","a","n",
              "d"," ","e","x","t","e","r","n","a","l"," ","o","v","e","r",
              "s","i","g","h","t"," ","b","o","d","i","e","s"," ","t","o",
              " ","m","a","i","n","t","a","i","n"," ","t","r","a","n","s",
              "p","a","r","e","n","c","y"," ","t","h","r","o","u","g","h",
              "o","u","t"," ","t","h","e"," ","p","r","o","c","e","s","s",
              "."," ","T","h","e"," ","p","o","l","i","c","e"," ","h","a",
              "v","e"," ","a","l","s","o"," ","i","m","p","l","e","m","e",
              "n","t","e","d"," ","a","d","d","i","t","i","o","n","a","l",
              " ","c","o","m","m","u","n","i","t","y"," ","o","u","t","r",
              "e","a","c","h"," ","m","e","a","s","u","r","e","s"," ","t",
              "o"," ","a","d","d","r","e","s","s"," ","p","u","b","l","i",
              "c"," ","c","o","n","c","e","r","n","s"," ","a","n","d"," ",
              "m","a","i","n","t","a","i","n"," ","t","r","u","s","t"," ",
              "d","u","r","i","n","g"," ","t","h","e"," ","i","n","v","e",
              "s","t","i","g","a","t","i","o","n",".">>
      ELSE IF \/ Contains(title_lower, <<"g","o","v","e","r","n","m","e","n","t">>)
              \/ Contains(title_lower, <<"m","i","n","i","s","t","e","r">>)
      THEN (* Government representatives have addressed the matter in r... *)
           <<"G","o","v","e","r","n","m","e","n","t"," ","r","e","p","r",
              "e","s","e","n","t","a","t","i","v","e","s"," ","h","a","v",
              "e"," ","a","d","d","r","e","s","s","e","d"," ","t","h","e",
              " ","m","a","t","t","e","r"," ","i","n"," ","r","e","c","e",
              "n","t"," ","s","t","a","t","e","m","e","n","t","s"," ","t",
              "o"," ","t","h","e"," ","p","r","e","s","s",","," ","p","r",
              "o","v","i","d","i","n","g"," ","d","e","t","a","i","l","e",
              "d"," ","i","n","f","o","r","m","a","t","i","o","n"," ","a",
              "b","o","u","t"," ","t","h","e","i","r"," ","p","l","a","n",
              "n","e","d"," ","r","e","s","p","o","n","s","e"," ","a","n",
              "d"," ","t","i","m","e","l","i","n","e"," ","f","o","r"," ",
              "a","c","t","i","o","n","."," ","O","f","f","i","c","i","a",
              "l","s"," ","e","m","p","h","a","s","i","z","e","d"," ","t",
              "h","e","i","r"," ","c","o","m","m","i","t","m","e","n","t",
              " ","t","o"," ","a","d","d","r","e","s","s","i","n","g"," ",
              "p","u","b","l","i","c"," ","c","o","n","c","e","r","n","s",
              " ","a","n","d"," ","e","n","s","u","r","i","n","g"," ","a",
              "p","p","r","o","p","r","i","a","t","e"," ","a","c","t","i",
              "o","n"," ","i","s"," ","t","a","k","e","n",","," ","w","i",
              "t","h"," ","s","p","e","c","i","f","i","c"," ","m","e","a",
              "s","u","r","e","s"," ","o","u","t","l","i","n","e","d"," ",
              "t","o"," ","d","e","m","o","n","s","t","r","a","t","e"," ",
              "a","c","c","o","u","n","t","a","b","i","l","i","t","y",".",
              " ","A"," ","s","e","n","i","o","r"," ","s","p","o","k","e",
              "s","p","e","r","s","o","n"," ","i","n","d","i","c","a","t",
              "e","d"," ","t","h","a","t"," ","f","u","r","t","h","e","r",
              " ","a","n","n","o","u","n","c","e","m","e","n","t","s"," ",
              "w","i","l","l"," ","b","e"," ","m","a","d","e"," ","a","s",
              " ","t","h","e"," ","s","i","t","u","a","t","i","o","n"," ",
              "d","e","v","e","l","o","p","s",","," ","w","i","t","h"," ",
              "r","e","g","u","l","a","r"," ","b","r","i","e","f","i","n",
              "g","s"," ","s","c","h","e","d","u","l","e","d"," ","t","o",
              " ","k","e","e","p"," ","t","h","e"," ","p","u","b","l","i",
              "c"," ","i","n","f","o","r","m","e","d","."," ","C","a","b",
              "i","n","e","t"," ","m","i","n","i","s","t","e","r","s"," ",
              "h","a","v","e"," ","b","e","e","n"," ","b","r","i","e","f",
              "e","d"," ","o","n"," ","t","h","e"," ","i","m","p","l","i",
              "c","a","t","i","o","n","s"," ","a","n","d"," ","h","a","v",
              "e"," ","e","x","p","r","e","s","s","e","d"," ","t","h","e",
              "i","r"," ","f","u","l","l"," ","s","u","p","p","o","r","t",
              " ","f","o","r"," ","t","h","e"," ","p","r","o","p","o","s",
              "e","d"," ","c","o","u","r","s","e"," ","o","f"," ","a","c",
              "t","i","o","n","."," ","T","h","e"," ","g","o","v","e","r",
              "n","m","e","n","t"," ","h","a","s"," ","a","l","s","o"," ",
              "e","s","t","a","b","l","i","s","h","e","d"," ","a"," ","d",
              "e","d","i","c","a","t","e","d"," ","c","o","m","m","u","n",
              "i","c","a","t","i","o","n"," ","s","t","r","a","t","e","g",
              "y"," ","t","o"," ","e","n","s","u","r","e"," ","a","c","c",
              "u","r","a","t","e"," ","i","n","f","o","r","m","a","t","i",
              "o","n"," ","i","s"," ","p","r","o","v","i","d","e","d"," ",
              "t","o"," ","t","h","e"," ","p","u","b","l","i","c"," ","a",
              "n","d"," ","m","e","d","i","a",".">>
      ELSE IF \/ Contains(title_lower, <<"c","o","u","r","t">>)
              \/ Contains(title_lower, <<"t","r","i","a","l">>)
      THEN (* Legal representatives from both sides have prepared exten... *)
           <<"L","e","g","a","l"," ","r","e","p","r","e","s","e","n","t",
              "a","t","i","v","e","s"," ","f","r","o","m"," ","b","o","t",
              "h"," ","s","i","d","e","s"," ","h","a","v","e"," ","p","r",
              "e","p","a","r","e","d"," ","e","x","t","e","n","s","i","v",
              "e"," ","d","o","c","u","m","e","n","t","a","t","i","o","n",
              " ","f","o","r"," ","t","h","e"," ","p","r","o","c","e","e",
              "d","i","n","g","s",","," ","w","i","t","h"," ","t","e","a",
              "m","s"," ","o","f"," ","e","x","p","e","r","i","e","n","c",
              "e","d"," ","a","t","t","o","r","n","e","y","s"," ","w","o",
              "r","k","i","n","g"," ","t","o"," ","p","r","e","s","e","n",
              "t"," ","t","h","e"," ","s","t","r","o","n","g","e","s","t",
              " ","p","o","s","s","i","b","l","e"," ","c","a","s","e","s",
              "."," ","C","o","u","r","t"," ","o","f","f","i","c","i","a",
              "l","s"," ","h","a","v","e"," ","c","o","n","f","i","r","m",
              "e","d"," ","t","h","a","t"," ","a","l","l"," ","p","r","o",
              "p","e","r"," ","p","r","o","c","e","d","u","r","e","s"," ",
              "a","r","e"," ","b","e","i","n","g"," ","f","o","l","l","o",
              "w","e","d"," ","t","o"," ","e","n","s","u","r","e"," ","a",
              " ","f","a","i","r"," ","h","e","a","r","i","n","g",","," ",
              "w","i","t","h"," ","a","d","d","i","t","i","o","n","a","l",
              " ","m","e","a","s","u","r","e","s"," ","i","m","p","l","e",
              "m","e","n","t","e","d"," ","t","o"," ","a","c","c","o","m",
              "m","o","d","a","t","e"," ","t","h","e"," ","h","i","g","h",
              " ","l","e","v","e","l"," ","o","f"," ","p","u","b","l","i",
              "c"," ","i","n","t","e","r","e","s","t","."," ","T","h","e",
              " ","j","u","d","g","e"," ","h","a","s"," ","e","m","p","h",
              "a","s","i","z","e","d"," ","t","h","e"," ","i","m","p","o",
              "r","t","a","n","c","e"," ","o","f"," ","a","l","l","o","w",
              "i","n","g"," ","t","h","e"," ","l","e","g","a","l"," ","p",
              "r","o","c","e","s","s"," ","t","o"," ","p","r","o","c","e",
              "e","d"," ","w","i","t","h","o","u","t"," ","o","u","t","s",
              "i","d","e"," ","i","n","t","e","r","f","e","r","e","n","c",
              "e",","," ","i","s","s","u","i","n","g"," ","c","l","e","a",
              "r"," ","g","u","i","d","e","l","i","n","e","s"," ","f","o",
              "r"," ","m","e","d","i","a"," ","c","o","v","e","r","a","g",
              "e"," ","a","n","d"," ","p","u","b","l","i","c"," ","a","c",
              "c","e","s","s","."," ","S","e","c","u","r","i","t","y"," ",
              "a","r","r","a","n","g","e","m","e","n","t","s"," ","h","a",
              "v","e"," ","b","e","e","n"," ","e","n","h","a","n","c","e",
              "d"," ","t","o"," ","e","n","s","u","r","e"," ","t","h","e",
              " ","s","a","f","e","t","y"," ","o","f"," ","a","l","l"," ",
              "p","a","r","t","i","c","i","p","a","n","t","s"," ","a","n",
              "d"," ","t","o"," ","m","a","i","n","t","a","i","n"," ","t",
              "h","e"," ","d","i","g","n","i","t","y"," ","o","f"," ","t",
              "h","e"," ","j","u","d","i","c","i","a","l"," ","p","r","o",
              "c","e","s","s","."," ","C","o","u","r","t"," ","a","d","m",
              "i","n","i","s","t","r","a","t","o","r","s"," ","a","r","e",
              " ","w","o","r","k","i","n","g"," ","t","o"," ","e","n","s",
              "u","r","e"," ","t","h","a","t"," ","s","c","h","e","d","u",
              "l","i","n","g"," ","a","c","c","o","m","m","o","d","a","t",
              "e","s"," ","t","h","e"," ","c","o","m","p","l","e","x","i",
              "t","y"," ","o","f"," ","t","h","e"," ","c","a","s","e"," ",
              "w","h","i","l","e"," ","m","a","i","n","t","a","i","n","i",
              "n","g"," ","e","f","f","i","c","i","e","n","c","y",".">>
      ELSE (* Officials have convened emergency meetings to address the... *)
           <<"O","f","f","i","c","i","a","l","s"," ","h","a","v","e"," ",
              "c","o","n","v","e","n","e","d"," ","e","m","e","r","g","e",
              "n","c","y"," ","m","e","e","t","i","n","g","s"," ","t","o",
              " ","a","d","d","r","e","s","s"," ","t","h","e"," ","d","e",
              "v","e","l","o","p","i","n","g"," ","s","i","t","u","a","t",
              "i","o","n"," ","a","n","d"," ","c","o","o","r","d","i","n",
              "a","t","e"," ","r","e","s","p","o","n","s","e"," ","e","f",
              "f","o","r","t","s",","," ","b","r","i","n","g","i","n","g",
              " ","t","o","g","e","t","h","e","r"," ","r","e","p","r","e",
              "s","e","n","t","a","t","i","v","e","s"," ","f","r","o","m",
              " ","a","l","l"," ","r","e","l","e","v","a","n","t"," ","a",
              "g","e","n","c","i","e","s"," ","a","n","d"," ","d","e","p",
              "a","r","t","m","e","n","t","s","."," ","R","e","l","e","v",
              "a","n","t"," ","a","u","t","h","o","r","i","t","i","e","s",
              " ","a","r","e"," ","w","o","r","k","i","n","g"," ","t","o",
              "g","e","t","h","e","r"," ","t","o"," ","e","n","s","u","r",
              "e"," ","a","l","l"," ","n","e","c","e","s","s","a","r","y",
              " ","m","e","a","s","u","r","e","s"," ","a","r","e"," ","i",
              "m","p","l","e","m","e","n","t","e","d"," ","e","f","f","e",
              "c","t","i","v","e","l","y",","," ","w","i","t","h"," ","c",
              "l","e","a","r"," ","c","o","m","m","u","n","i","c","a","t",
              "i","o","n"," ","c","h","a","n","n","e","l","s"," ","e","s",
              "t","a","b","l","i","s","h","e","d"," ","t","o"," ","f","a",
              "c","i","l","i","t","a","t","e"," ","c","o","o","r","d","i",
              "n","a","t","i","o","n","."," ","R","e","g","u","l","a","r",
              " ","u","p","d","a","t","e","s"," ","a","r","e"," ","b","e",
              "i","n","g"," ","p","r","o","v","i","d","e","d"," ","t","o",
              " ","k","e","e","p"," ","t","h","e"," ","p","u","b","l","i",
              "c"," ","i","n","f","o","r","m","e","d"," ","o","f"," ","a",
              "n","y"," ","s","i","g","n","i","f","i","c","a","n","t"," ",
              "d","e","v","e","l","o","p","m","e","n","t","s",","," ","w",
              "i","t","h"," ","d","e","s","i","g","n","a","t","e","d"," ",
              "s","p","o","k","e","s","p","e","r","s","o","n","s"," ","a",
              "s","s","i","g","n","e","d"," ","t","o"," ","h","a","n","d",
              "l","e"," ","m","e","d","i","a"," ","i","n","q","u","i","r",
              "i","e","s","."," ","E","m","e","r","g","e","n","c","y"," ",
              "p","r","o","t","o","c","o","l","s"," ","h","a","v","e"," ",
              "b","e","e","n"," ","a","c","t","i","v","a","t","e","d"," ",
              "w","h","e","r","e"," ","a","p","p","r","o","p","r","i","a",
              "t","e",","," ","e","n","s","u","r","i","n","g"," ","t","h",
              "a","t"," ","a","l","l"," ","r","e","s","p","o","n","s","e",
              " ","p","r","o","c","e","d","u","r","e","s"," ","a","r","e",
              " ","f","o","l","l","o","w","e","d"," ","a","c","c","o","r",
              "d","i","n","g"," ","t","o"," ","e","s","t","a","b","l","i",
              "s","h","e","d"," ","g","u","i","d","e","l","i","n","e","s",
              "."," ","T","h","e"," ","c","o","o","r","d","i","n","a","t",
              "e","d"," ","a","p","p","r","o","a","c","h"," ","r","e","f",
              "l","e","c","t","s"," ","t","h","e"," ","s","e","r","i","o",
              "u","s","n","e","s","s"," ","o","f"," ","t","h","e"," ","s",
              "i","t","u","a","t","i","o","n"," ","a","n","d"," ","t","h",
              "e"," ","c","o","m","m","i","t","m","e","n","t"," ","o","f",
              " ","a","u","t","h","o","r","i","t","i","e","s"," ","t","o",
              " ","p","r","o","v","i","d","i","n","g"," ","a","n"," ","e",
              "f","f","e","c","t","i","v","e"," ","r","e","s","p","o","n",
              "s","e",".">>

generate_expanded_broader_context(topic) ==
  LET title_lower == str_lower(topic.title)
  IN  IF \/ Contains(title_lower, <<"p","o","l","i","c","e">>)
         \/ Contains(title_lower, <<"i","n","v","e","s","t","i","g","a","t","i","o","n">>)
      THEN (* This investigation takes place against a backdrop of incr... *)
           <<"T","h","i","s"," ","i","n","v","e","s","t","i","g","a","t",
              "i","o","n"," ","t","a","k","e","s"," ","p","l","a","c","e",
              " ","a","g","a","i","n","s","t"," ","a"," ","b","a","c","k",
              "d","r","o","p"," ","o","f"," ","i","n","c","r","e","a","s",
              "e","d"," ","p","u","b","l","i","c"," ","s","c","r","u","t",
              "i","n","y"," ","o","f"," ","l","a","w"," ","e","n","f","o",
              "r","c","e","m","e","n","t"," ","p","r","a","c","t","i","c",
              "e","s",","," ","r","e","f","l","e","c","t","i","n","g"," ",
              "b","r","o","a","d","e","r"," ","s","o","c","i","e","t","a",
              "l"," ","d","i","s","c","u","s","s","i","o","n","s"," ","a",
              "b","o","u","t"," ","a","c","c","o","u","n","t","a","b","i",
              "l","i","t","y"," ","a","n","d"," ","t","r","a","n","s","p",
              "a","r","e","n","c","y","."," ","R","e","c","e","n","t"," ",
              "c","a","s","e","s"," ","h","a","v","e"," ","h","i","g","h",
              "l","i","g","h","t","e","d"," ","t","h","e"," ","i","m","p",
              "o","r","t","a","n","c","e"," ","o","f"," ","t","r","a","n",
              "s","p","a","r","e","n","c","y"," ","a","n","d"," ","a","c",
              "c","o","u","n","t","a","b","i","l","i","t","y"," ","i","n",
              " ","p","o","l","i","c","e"," ","o","p","e","r","a","t","i",
              "o","n","s",","," ","l","e","a","d","i","n","g"," ","t","o",
              " ","r","e","f","o","r","m","s"," ","i","n"," ","m","a","n",
              "y"," ","j","u","r","i","s","d","i","c","t","i","o","n","s",
              "."," ","L","e","g","a","l"," ","e","x","p","e","r","t","s",
              " ","n","o","t","e"," ","t","h","a","t"," ","s","u","c","h",
              " ","i","n","v","e","s","t","i","g","a","t","i","o","n","s",
              " ","o","f","t","e","n"," ","l","e","a","d"," ","t","o"," ",
              "i","m","p","o","r","t","a","n","t"," ","r","e","f","o","r",
              "m","s"," ","a","n","d"," ","i","m","p","r","o","v","e","d",
              " ","p","r","o","t","o","c","o","l","s",","," ","b","e","n",
              "e","f","i","t","i","n","g"," ","b","o","t","h"," ","l","a",
              "w"," ","e","n","f","o","r","c","e","m","e","n","t"," ","a",
              "g","e","n","c","i","e","s"," ","a","n","d"," ","t","h","e",
              " ","c","o","m","m","u","n","i","t","i","e","s"," ","t","h",
              "e","y"," ","s","e","r","v","e","."," ","T","h","e"," ","c",
              "a","s","e"," ","h","a","s"," ","a","t","t","r","a","c","t",
              "e","d"," ","a","t","t","e","n","t","i","o","n"," ","f","r",
              "o","m"," ","c","i","v","i","l"," ","r","i","g","h","t","s",
              " ","o","r","g","a","n","i","z","a","t","i","o","n","s"," ",
              "a","n","d"," ","p","o","l","i","c","e"," ","r","e","f","o",
              "r","m"," ","a","d","v","o","c","a","t","e","s",","," ","w",
              "h","o"," ","a","r","e"," ","m","o","n","i","t","o","r","i",
              "n","g"," ","t","h","e"," ","p","r","o","c","e","e","d","i",
              "n","g","s"," ","c","l","o","s","e","l","y","."," ","T","h",
              "e"," ","o","u","t","c","o","m","e"," ","c","o","u","l","d",
              " ","i","n","f","l","u","e","n","c","e"," ","f","u","t","u",
              "r","e"," ","p","o","l","i","c","i","e","s"," ","a","n","d",
              " ","p","r","o","c","e","d","u","r","e","s",","," ","p","o",
              "t","e","n","t","i","a","l","l","y"," ","s","e","t","t","i",
              "n","g"," ","n","e","w"," ","s","t","a","n","d","a","r","d",
              "s"," ","f","o","r"," ","h","o","w"," ","s","i","m","i","l",
              "a","r"," ","c","a","s","e","s"," ","a","r","e"," ","h","a",
              "n","d","l","e","d",".">>
      ELSE IF \/ Contains(title_lower, <<"i","n","t","e","r","n","a","t","i","o","n","a","l">>)
              \/ Contains(title_lower, <<"g","l","o","b","a","l">>)
      THEN (* The international community is watching these development... *)
           <<"T","h","e"," ","i","n","t","e","r","n","a","t","i","o","n",
              "a","l"," ","c","o","m","m","u","n","i","t","y"," ","i","s",
              " ","w","a","t","c","h","i","n","g"," ","t","h","e","s","e",
              " ","d","e","v","e","l","o","p","m","e","n","t","s"," ","c",
              "l","o","s","e","l","y"," ","a","s"," ","t","h","e","y"," ",
              "m","a","y"," ","h","a","v","e"," ","b","r","o","a","d","e",
              "r"," ","i","m","p","l","i","c","a","t","i","o","n","s"," ",
              "f","o","r"," ","r","e","g","i","o","n","a","l"," ","s","t",
              "a","b","i","l","i","t","y"," ","a","n","d"," ","i","n","t",
              "e","r","n","a","t","i","o","n","a","l"," ","r","e","l","a",
              "t","i","o","n","s","."," ","S","i","m","i","l","a","r"," ",
              "s","i","t","u","a","t","i","o","n","s"," ","i","n"," ","o",
              "t","h","e","r"," ","c","o","u","n","t","r","i","e","s"," ",
              "h","a","v","e"," ","d","e","m","o","n","s","t","r","a","t",
              "e","d"," ","t","h","e"," ","i","m","p","o","r","t","a","n",
              "c","e"," ","o","f"," ","c","o","o","r","d","i","n","a","t",
              "e","d"," ","i","n","t","e","r","n","a","t","i","o","n","a",
              "l"," ","r","e","s","p","o","n","s","e","s",","," ","w","i",
              "t","h"," ","l","e","s","s","o","n","s"," ","l","e","a","r",
              "n","e","d"," ","f","r","o","m"," ","p","r","e","v","i","o",
              "u","s"," ","e","x","p","e","r","i","e","n","c","e","s"," ",
              "i","n","f","o","r","m","i","n","g"," ","c","u","r","r","e",
              "n","t"," ","a","p","p","r","o","a","c","h","e","s","."," ",
              "D","i","p","l","o","m","a","t","i","c"," ","o","b","s","e",
              "r","v","e","r","s"," ","n","o","t","e"," ","t","h","a","t",
              " ","t","h","e"," ","o","u","t","c","o","m","e"," ","c","o",
              "u","l","d"," ","i","n","f","l","u","e","n","c","e"," ","r",
              "e","g","i","o","n","a","l"," ","s","t","a","b","i","l","i",
              "t","y"," ","a","n","d"," ","i","n","t","e","r","n","a","t",
              "i","o","n","a","l"," ","r","e","l","a","t","i","o","n","s",
              ","," ","p","a","r","t","i","c","u","l","a","r","l","y"," ",
              "g","i","v","e","n"," ","t","h","e"," ","c","u","r","r","e",
              "n","t"," ","g","l","o","b","a","l"," ","p","o","l","i","t",
              "i","c","a","l"," ","c","l","i","m","a","t","e","."," ","I",
              "n","t","e","r","n","a","t","i","o","n","a","l"," ","o","r",
              "g","a","n","i","z","a","t","i","o","n","s"," ","h","a","v",
              "e"," ","e","x","p","r","e","s","s","e","d"," ","i","n","t",
              "e","r","e","s","t"," ","i","n"," ","t","h","e"," ","d","e",
              "v","e","l","o","p","m","e","n","t","s"," ","a","n","d"," ",
              "h","a","v","e"," ","o","f","f","e","r","e","d"," ","a","s",
              "s","i","s","t","a","n","c","e"," ","w","h","e","r","e"," ",
              "a","p","p","r","o","p","r","i","a","t","e","."," ","T","h",
              "e"," ","s","i","t","u","a","t","i","o","n"," ","h","i","g",
              "h","l","i","g","h","t","s"," ","t","h","e"," ","i","n","t",
              "e","r","c","o","n","n","e","c","t","e","d"," ","n","a","t",
              "u","r","e"," ","o","f"," ","m","o","d","e","r","n"," ","g",
              "l","o","b","a","l"," ","a","f","f","a","i","r","s"," ","a",
              "n","d"," ","t","h","e"," ","i","m","p","o","r","t","a","n",
              "c","e"," ","o","f"," ","m","u","l","t","i","l","a","t","e",
              "r","a","l"," ","c","o","o","p","e","r","a","t","i","o","n",
              " ","i","n"," ","a","d","d","r","e","s","s","i","n","g"," ",
              "c","o","m","p","l","e","x"," ","c","h","a","l","l","e","n",
              "g","e","s",".">>
      ELSE IF \/ Contains(title_lower, <<"e","c","o","n","o","m","i","c">>)
              \/ Contains(title_lower, <<"f","i","n","a","n","c","i","a","l">>)
      THEN (* Economic analysts are assessing the potential market impl... *)
           <<"E","c","o","n","o","m","i","c"," ","a","n","a","l","y","s",
              "t","s"," ","a","r","e"," ","a","s","s","e","s","s","i","n",
              "g"," ","t","h","e"," ","p","o","t","e","n","t","i","a","l",
              " ","m","a","r","k","e","t"," ","i","m","p","l","i","c","a",
              "t","i","o","n","s"," ","o","f"," ","t","h","e","s","e"," ",
              "d","e","v","e","l","o","p","m","e","n","t","s",","," ","e",
              "x","a","m","i","n","i","n","g"," ","b","o","t","h"," ","s",
              "h","o","r","t","-","t","e","r","m"," ","v","o","l","a","t",
              "i","l","i","t","y"," ","a","n","d"," ","l","o","n","g","-",
              "t","e","r","m"," ","s","t","r","u","c","t","u","r","a","l",
              " ","i","m","p","a","c","t","s","."," ","T","h","e"," ","s",
              "i","t","u","a","t","i","o","n"," ","c","o","m","e","s"," ",
              "a","t"," ","a"," ","t","i","m","e"," ","w","h","e","n"," ",
              "f","i","n","a","n","c","i","a","l"," ","m","a","r","k","e",
              "t","s"," ","a","r","e"," ","a","l","r","e","a","d","y"," ",
              "f","a","c","i","n","g"," ","v","a","r","i","o","u","s"," ",
              "g","l","o","b","a","l"," ","c","h","a","l","l","e","n","g",
              "e","s",","," ","i","n","c","l","u","d","i","n","g"," ","o",
              "n","g","o","i","n","g"," ","c","o","n","c","e","r","n","s",
              " ","a","b","o","u","t"," ","i","n","f","l","a","t","i","o",
              "n",","," ","t","r","a","d","e"," ","r","e","l","a","t","i",
              "o","n","s","h","i","p","s",","," ","a","n","d"," ","g","e",
              "o","p","o","l","i","t","i","c","a","l"," ","t","e","n","s",
              "i","o","n","s","."," ","I","n","d","u","s","t","r","y"," ",
              "e","x","p","e","r","t","s"," ","s","u","g","g","e","s","t",
              " ","t","h","a","t"," ","t","h","e"," ","l","o","n","g","-",
              "t","e","r","m"," ","e","c","o","n","o","m","i","c"," ","i",
              "m","p","a","c","t"," ","w","i","l","l"," ","d","e","p","e",
              "n","d"," ","o","n"," ","h","o","w"," ","q","u","i","c","k",
              "l","y"," ","i","s","s","u","e","s"," ","a","r","e"," ","r",
              "e","s","o","l","v","e","d"," ","a","n","d"," ","w","h","a",
              "t"," ","m","e","a","s","u","r","e","s"," ","a","r","e"," ",
              "i","m","p","l","e","m","e","n","t","e","d"," ","t","o"," ",
              "a","d","d","r","e","s","s"," ","u","n","d","e","r","l","y",
              "i","n","g"," ","c","o","n","c","e","r","n","s","."," ","F",
              "i","n","a","n","c","i","a","l"," ","i","n","s","t","i","t",
              "u","t","i","o","n","s"," ","a","r","e"," ","m","o","n","i",
              "t","o","r","i","n","g"," ","t","h","e"," ","s","i","t","u",
              "a","t","i","o","n"," ","c","l","o","s","e","l","y"," ","a",
              "n","d"," ","a","d","j","u","s","t","i","n","g"," ","t","h",
              "e","i","r"," ","r","i","s","k"," ","a","s","s","e","s","s",
              "m","e","n","t","s"," ","a","c","c","o","r","d","i","n","g",
              "l","y","."," ","T","h","e"," ","b","r","o","a","d","e","r",
              " ","e","c","o","n","o","m","i","c"," ","c","o","n","t","e",
              "x","t"," ","i","n","c","l","u","d","e","s"," ","c","o","n",
              "s","i","d","e","r","a","t","i","o","n","s"," ","o","f"," ",
              "s","u","p","p","l","y"," ","c","h","a","i","n"," ","s","t",
              "a","b","i","l","i","t","y",","," ","c","o","n","s","u","m",
              "e","r"," ","c","o","n","f","i","d","e","n","c","e",","," ",
              "a","n","d"," ","i","n","t","e","r","n","a","t","i","o","n",
              "a","l"," ","t","r","a","d","e"," ","r","e","l","a","t","i",
              "o","n","s","h","i","p","s",".">>
      ELSE (* These developments occur within a larger context of ongoi... *)
           <<"T","h","e","s","e"," ","d","e","v","e","l","o","p","m","e",
              "n","t","s"," ","o","c","c","u","r"," ","w","i","t","h","i",
              "n"," ","a"," ","l","a","r","g","e","r"," ","c","o","n","t",
              "e","x","t"," ","o","f"," ","o","n","g","o","i","n","g"," ",
              "s","o","c","i","a","l"," ","a","n","d"," ","p","o","l","i",
              "t","i","c","a","l"," ","c","h","a","n","g","e","s",","," ",
              "r","e","f","l","e","c","t","i","n","g"," ","b","r","o","a",
              "d","e","r"," ","t","r","e","n","d","s"," ","a","n","d"," ",
              "c","h","a","l","l","e","n","g","e","s"," ","f","a","c","i",
              "n","g"," ","s","o","c","i","e","t","y","."," ","O","b","s",
              "e","r","v","e","r","s"," ","n","o","t","e"," ","t","h","a",
              "t"," ","s","u","c","h"," ","i","n","c","i","d","e","n","t",
              "s"," ","o","f","t","e","n"," ","r","e","f","l","e","c","t",
              " ","b","r","o","a","d","e","r"," ","s","y","s","t","e","m",
              "i","c"," ","i","s","s","u","e","s"," ","t","h","a","t"," ",
              "r","e","q","u","i","r","e"," ","c","o","m","p","r","e","h",
              "e","n","s","i","v","e"," ","s","o","l","u","t","i","o","n",
              "s",","," ","i","n","v","o","l","v","i","n","g"," ","m","u",
              "l","t","i","p","l","e"," ","s","t","a","k","e","h","o","l",
              "d","e","r","s"," ","a","n","d"," ","l","o","n","g","-","t",
              "e","r","m"," ","c","o","m","m","i","t","m","e","n","t",".",
              " ","T","h","e"," ","s","i","t","u","a","t","i","o","n"," ",
              "h","a","s"," ","p","r","o","m","p","t","e","d"," ","r","e",
              "n","e","w","e","d"," ","d","i","s","c","u","s","s","i","o",
              "n","s"," ","a","b","o","u","t"," ","t","h","e"," ","n","e",
              "e","d"," ","f","o","r"," ","p","o","l","i","c","y"," ","r",
              "e","f","o","r","m","s"," ","a","n","d"," ","i","n","s","t",
              "i","t","u","t","i","o","n","a","l"," ","i","m","p","r","o",
              "v","e","m","e","n","t","s",","," ","w","i","t","h"," ","c",
              "a","l","l","s"," ","f","o","r"," ","m","o","r","e"," ","p",
              "r","o","a","c","t","i","v","e"," ","a","p","p","r","o","a",
              "c","h","e","s"," ","t","o"," ","p","r","e","v","e","n","t",
              "i","n","g"," ","s","i","m","i","l","a","r"," ","i","s","s",
              "u","e","s","."," ","A","c","a","d","e","m","i","c"," ","r",
              "e","s","e","a","r","c","h","e","r","s"," ","a","n","d"," ",
              "p","o","l","i","c","y"," ","e","x","p","e","r","t","s"," ",
              "a","r","e"," ","a","n","a","l","y","z","i","n","g"," ","t",
              "h","e"," ","i","m","p","l","i","c","a","t","i","o","n","s",
              " ","f","o","r"," ","f","u","t","u","r","e"," ","g","o","v",
              "e","r","n","a","n","c","e"," ","a","n","d"," ","i","n","s",
              "t","i","t","u","t","i","o","n","a","l"," ","e","f","f","e",
              "c","t","i","v","e","n","e","s","s","."," ","T","h","e"," ",
              "b","r","o","a","d","e","r"," ","c","o","n","t","e","x","t",
              " ","i","n","c","l","u","d","e","s"," ","c","o","n","s","i",
              "d","e","r","a","t","i","o","n","s"," ","o","f"," ","p","u",
              "b","l","i","c"," ","t","r","u","s","t",","," ","i","n","s",
              "t","i","t","u","t","i","o","n","a","l"," ","c","a","p","a",
              "c","i","t","y",","," ","a","n","d"," ","t","h","e"," ","e",
              "v","o","l","v","i","n","g"," ","r","e","l","a","t","i","o",
              "n","s","h","i","p"," ","b","e","t","w","e","e","n"," ","g",
              "o","v","e","r","n","m","e","n","t"," ","a","n","d"," ","c",
              "i","v","i","l"," ","s","o","c","i","e","t","y",".">>

generate_expanded_contextual_conclusion(topic) ==
  LET title_lower == str_lower(topic.title)
  IN  IF \/ Contains(title_lower, <<"i","n","v","e","s","t","i","g","a","t","i","o","n">>)
         \/ Contains(title_lower, <<"p","o","l","i","c","e">>)
      THEN (* The investigation remains ongoing, with authorities pledg... *)
           <<"T","h","e"," ","i","n","v","e","s","t","i","g","a","t","i",
              "o","n"," ","r","e","m","a","i","n","s"," ","o","n","g","o",
              "i","n","g",","," ","w","i","t","h"," ","a","u","t","h","o",
              "r","i","t","i","e","s"," ","p","l","e","d","g","i","n","g",
              " ","t","o"," ","p","u","r","s","u","e"," ","a","l","l"," ",
              "a","v","a","i","l","a","b","l","e"," ","l","e","a","d","s",
              " ","a","n","d"," ","e","n","s","u","r","e"," ","a"," ","c",
              "o","m","p","r","e","h","e","n","s","i","v","e"," ","e","x",
              "a","m","i","n","a","t","i","o","n"," ","o","f"," ","a","l",
              "l"," ","e","v","i","d","e","n","c","e","."," ","O","f","f",
              "i","c","i","a","l","s"," ","h","a","v","e"," ","a","s","k",
              "e","d"," ","a","n","y","o","n","e"," ","w","i","t","h"," ",
              "i","n","f","o","r","m","a","t","i","o","n"," ","t","o"," ",
              "c","o","m","e"," ","f","o","r","w","a","r","d"," ","t","o",
              " ","a","s","s","i","s","t"," ","i","n"," ","t","h","e"," ",
              "i","n","q","u","i","r","y",","," ","e","m","p","h","a","s",
              "i","z","i","n","g"," ","t","h","a","t"," ","c","o","m","m",
              "u","n","i","t","y"," ","c","o","o","p","e","r","a","t","i",
              "o","n"," ","i","s"," ","e","s","s","e","n","t","i","a","l",
              " ","f","o","r"," ","a","c","h","i","e","v","i","n","g"," ",
              "a"," ","s","u","c","c","e","s","s","f","u","l"," ","r","e",
              "s","o","l","u","t","i","o","n","."," ","R","e","g","u","l",
              "a","r"," ","u","p","d","a","t","e","s"," ","w","i","l","l",
              " ","b","e"," ","p","r","o","v","i","d","e","d"," ","t","o",
              " ","t","h","e"," ","p","u","b","l","i","c"," ","a","s"," ",
              "t","h","e"," ","i","n","v","e","s","t","i","g","a","t","i",
              "o","n"," ","p","r","o","g","r","e","s","s","e","s",","," ",
              "w","i","t","h"," ","t","r","a","n","s","p","a","r","e","n",
              "c","y"," ","m","a","i","n","t","a","i","n","e","d"," ","t",
              "h","r","o","u","g","h","o","u","t"," ","t","h","e"," ","p",
              "r","o","c","e","s","s","."," ","T","h","e"," ","c","a","s",
              "e"," ","i","s"," ","e","x","p","e","c","t","e","d"," ","t",
              "o"," ","c","o","n","t","i","n","u","e"," ","f","o","r"," ",
              "s","e","v","e","r","a","l"," ","w","e","e","k","s"," ","a",
              "s"," ","i","n","v","e","s","t","i","g","a","t","o","r","s",
              " ","w","o","r","k"," ","m","e","t","h","o","d","i","c","a",
              "l","l","y"," ","t","h","r","o","u","g","h"," ","a","l","l",
              " ","a","s","p","e","c","t","s"," ","o","f"," ","t","h","e",
              " ","m","a","t","t","e","r",".">>
      ELSE IF \/ Contains(title_lower, <<"t","r","i","a","l">>)
              \/ Contains(title_lower, <<"c","o","u","r","t">>)
      THEN (* The legal proceedings are expected to continue over the c... *)
           <<"T","h","e"," ","l","e","g","a","l"," ","p","r","o","c","e",
              "e","d","i","n","g","s"," ","a","r","e"," ","e","x","p","e",
              "c","t","e","d"," ","t","o"," ","c","o","n","t","i","n","u",
              "e"," ","o","v","e","r"," ","t","h","e"," ","c","o","m","i",
              "n","g"," ","w","e","e","k","s",","," ","w","i","t","h"," ",
              "b","o","t","h"," ","s","i","d","e","s"," ","p","r","e","s",
              "e","n","t","i","n","g"," ","d","e","t","a","i","l","e","d",
              " ","a","r","g","u","m","e","n","t","s"," ","a","n","d"," ",
              "e","v","i","d","e","n","c","e","."," ","B","o","t","h"," ",
              "p","r","o","s","e","c","u","t","i","o","n"," ","a","n","d",
              " ","d","e","f","e","n","s","e"," ","t","e","a","m","s"," ",
              "a","r","e"," ","p","r","e","p","a","r","i","n","g"," ","t",
              "h","e","i","r"," ","c","a","s","e","s"," ","a","s"," ","t",
              "h","e"," ","j","u","d","i","c","i","a","l"," ","p","r","o",
              "c","e","s","s"," ","m","o","v","e","s"," ","f","o","r","w",
              "a","r","d",","," ","w","i","t","h"," ","a","d","d","i","t",
              "i","o","n","a","l"," ","h","e","a","r","i","n","g","s"," ",
              "s","c","h","e","d","u","l","e","d"," ","t","o"," ","a","d",
              "d","r","e","s","s"," ","v","a","r","i","o","u","s"," ","a",
              "s","p","e","c","t","s"," ","o","f"," ","t","h","e"," ","m",
              "a","t","t","e","r","."," ","T","h","e"," ","c","o","u","r",
              "t"," ","h","a","s"," ","e","s","t","a","b","l","i","s","h",
              "e","d"," ","a"," ","c","o","m","p","r","e","h","e","n","s",
              "i","v","e"," ","s","c","h","e","d","u","l","e"," ","t","o",
              " ","e","n","s","u","r","e"," ","a","l","l"," ","p","a","r",
              "t","i","e","s"," ","h","a","v","e"," ","a","d","e","q","u",
              "a","t","e"," ","t","i","m","e"," ","t","o"," ","p","r","e",
              "s","e","n","t"," ","t","h","e","i","r"," ","p","o","s","i",
              "t","i","o","n","s","."," ","A"," ","v","e","r","d","i","c",
              "t"," ","i","s"," ","a","n","t","i","c","i","p","a","t","e",
              "d"," ","f","o","l","l","o","w","i","n","g"," ","t","h","e",
              " ","c","o","m","p","l","e","t","i","o","n"," ","o","f"," ",
              "a","l","l"," ","s","c","h","e","d","u","l","e","d"," ","p",
              "r","o","c","e","e","d","i","n","g","s"," ","a","n","d"," ",
              "d","e","l","i","b","e","r","a","t","i","o","n","s",".">>
      ELSE (* Authorities continue to monitor the situation closely, ma... *)
           <<"A","u","t","h","o","r","i","t","i","e","s"," ","c","o","n",
              "t","i","n","u","e"," ","t","o"," ","m","o","n","i","t","o",
              "r"," ","t","h","e"," ","s","i","t","u","a","t","i","o","n",
              " ","c","l","o","s","e","l","y",","," ","m","a","i","n","t",
              "a","i","n","i","n","g"," ","r","e","a","d","i","n","e","s",
              "s"," ","t","o"," ","r","e","s","p","o","n","d"," ","t","o",
              " ","a","n","y"," ","n","e","w"," ","d","e","v","e","l","o",
              "p","m","e","n","t","s"," ","o","r"," ","c","h","a","n","g",
              "i","n","g"," ","c","i","r","c","u","m","s","t","a","n","c",
              "e","s","."," ","F","u","r","t","h","e","r"," ","u","p","d",
              "a","t","e","s"," ","a","r","e"," ","e","x","p","e","c","t",
              "e","d"," ","a","s"," ","m","o","r","e"," ","i","n","f","o",
              "r","m","a","t","i","o","n"," ","b","e","c","o","m","e","s",
              " ","a","v","a","i","l","a","b","l","e"," ","f","r","o","m",
              " ","o","f","f","i","c","i","a","l"," ","s","o","u","r","c",
              "e","s",","," ","w","i","t","h"," ","r","e","g","u","l","a",
              "r"," ","a","s","s","e","s","s","m","e","n","t","s"," ","c",
              "o","n","d","u","c","t","e","d"," ","t","o"," ","e","v","a",
              "l","u","a","t","e"," ","p","r","o","g","r","e","s","s",".",
              " ","T","h","e"," ","c","o","m","m","i","t","m","e","n","t",
              " ","t","o"," ","t","r","a","n","s","p","a","r","e","n","c",
              "y"," ","a","n","d"," ","p","u","b","l","i","c"," ","c","o",
              "m","m","u","n","i","c","a","t","i","o","n"," ","r","e","m",
              "a","i","n","s"," ","a"," ","p","r","i","o","r","i","t","y",
              " ","t","h","r","o","u","g","h","o","u","t"," ","t","h","e",
              " ","o","n","g","o","i","n","g"," ","r","e","s","p","o","n",
              "s","e"," ","e","f","f","o","r","t","s","."," ","S","t","a",
              "k","e","h","o","l","d","e","r","s"," ","a","r","e"," ","e",
              "x","p","e","c","t","e","d"," ","t","o"," ","c","o","n","t",
              "i","n","u","e"," ","t","h","e","i","r"," ","c","o","l","l",
              "a","b","o","r","a","t","i","v","e"," ","a","p","p","r","o",
              "a","c","h"," ","a","s"," ","t","h","e"," ","s","i","t","u",
              "a","t","i","o","n"," ","e","v","o","l","v","e","s"," ","a",
              "n","d"," ","n","e","w"," ","c","h","a","l","l","e","n","g",
              "e","s"," ","e","m","e","r","g","e",".">>

generate_contextual_lead(topic) ==
  LET title_lower == str_lower(topic.title)
  IN  IF \/ Contains(title_lower, <<"p","o","l","i","c","e">>)
         \/ Contains(title_lower, <<"i","n","v","e","s","t","i","g","a","t","i","o","n">>)
      THEN (* Law enforcement officials are investigating {title_lower}... *)
           <<"L","a","w"," ","e","n","f","o","r","c","e","m","e","n","t",
              " ","o","f","f","i","c","i","a","l","s"," ","a","r","e"," ",
              "i","n","v","e","s","t","i","g","a","t","i","n","g"," ">>
           \o title_lower
           \o <<","," ","a","c","c","o","r","d","i","n","g"," ","t","o"," ",
              "s","o","u","r","c","e","s"," ","f","a","m","i","l","i","a",
              "r"," ","w","i","t","h"," ","t","h","e"," ","m","a","t","t",
              "e","r","."," ","T","h","e"," ","i","n","v","e","s","t","i",
              "g","a","t","i","o","n"," ","m","a","r","k","s"," ","a"," ",
              "s","i","g","n","i","f","i","c","a","n","t"," ","d","e","v",
              "e","l","o","p","m","e","n","t"," ","i","n"," ","t","h","e",
              " ","o","n","g","o","i","n","g"," ","c","a","s","e",".">>
      ELSE IF \/ Contains(title_lower, <<"d","e","a","d">>)
              \/ Contains(title_lower, <<"k","i","l","l","e","d">>)
              \/ Contains(title_lower, <<"d","i","e","d">>)
      THEN (* Multiple fatalities have been reported in an incident inv... *)
           <<"M","u","l","t","i","p","l","e"," ","f","a","t","a","l","i",
              "t","i","e","s"," ","h","a","v","e"," ","b","e","e","n"," ",
              "r","e","p","o","r","t","e","d"," ","i","n"," ","a","n"," ",
              "i","n","c","i","d","e","n","t"," ","i","n","v","o","l","v",
              "i","n","g"," ">>
           \o title_lower
           \o <<"."," ","E","m","e","r","g","e","n","c","y"," ","s","e","r",
              "v","i","c","e","s"," ","r","e","s","p","o","n","d","e","d",
              " ","t","o"," ","t","h","e"," ","s","c","e","n","e"," ","a",
              "s"," ","a","u","t","h","o","r","i","t","i","e","s"," ","w",
              "o","r","k"," ","t","o"," ","d","e","t","e","r","m","i","n",
              "e"," ","t","h","e"," ","f","u","l","l"," ","s","c","o","p",
              "e"," ","o","f"," ","t","h","e"," ","s","i","t","u","a","t",
              "i","o","n",".">>
      ELSE IF \/ Contains(title_lower, <<"g","o","v","e","r","n","m","e","n","t">>)
              \/ Contains(title_lower, <<"m","i","n","i","s","t","e","r">>)
              \/ Contains(title_lower, <<"p","r","e","s","i","d","e","n","t">>)
      THEN (* Senior government officials are addressing {title_lower},... *)
           <<"S","e","n","i","o","r"," ","g","o","v","e","r","n","m","e",
              "n","t"," ","o","f","f","i","c","i","a","l","s"," ","a","r",
              "e"," ","a","d","d","r","e","s","s","i","n","g"," ">>
           \o title_lower
           \o <<","," ","m","a","r","k","i","n","g"," ","a"," ","s","i","g",
              "n","i","f","i","c","a","n","t"," ","p","o","l","i","c","y",
              " ","d","e","v","e","l","o","p","m","e","n","t","."," ","T",
              "h","e"," ","a","n","n","o","u","n","c","e","m","e","n","t",
              " ","c","o","m","e","s"," ","a","m","i","d"," ","o","n","g",
              "o","i","n","g"," ","d","i","s","c","u","s","s","i","o","n",
              "s"," ","a","b","o","u","t"," ","t","h","e"," ","i","s","s",
              "u","e",".">>
      ELSE IF \/ Contains(title_lower, <<"c","o","u","r","t">>)
              \/ Contains(title_lower, <<"t","r","i","a","l">>)
              \/ Contains(title_lower, <<"l","a","w","s","u","i","t">>)
      THEN (* Legal proceedings are underway regarding {title_lower}. T... *)
           <<"L","e","g","a","l"," ","p","r","o","c","e","e","d","i","n",
              "g","s"," ","a","r","e"," ","u","n","d","e","r","w","a","y",
              " ","r","e","g","a","r","d","i","n","g"," ">>
           \o title_lower
           \o <<"."," ","T","h","e"," ","c","o","u","r","t"," ","c","a","s",
              "e"," ","h","a","s"," ","d","r","a","w","n"," ","a","t","t",
              "e","n","t","i","o","n"," ","f","r","o","m"," ","l","e","g",
              "a","l"," ","e","x","p","e","r","t","s"," ","a","n","d"," ",
              "c","o","u","l","d"," ","s","e","t"," ","i","m","p","o","r",
              "t","a","n","t"," ","p","r","e","c","e","d","e","n","t","s",
              ".">>
      ELSE (* Authorities are responding to developments involving {tit... *)
           <<"A","u","t","h","o","r","i","t","i","e","s"," ","a","r","e",
              " ","r","e","s","p","o","n","d","i","n","g"," ","t","o"," ",
              "d","e","v","e","l","o","p","m","e","n","t","s"," ","i","n",
              "v","o","l","v","i","n","g"," ">>
           \o title_lower
           \o <<"."," ","T","h","e"," ","s","i","t","u","a","t","i","o","n",
              " ","h","a","s"," ","p","r","o","m","p","t","e","d"," ","i",
              "m","m","e","d","i","a","t","e"," ","a","c","t","i","o","n",
              " ","f","r","o","m"," ","r","e","l","e","v","a","n","t"," ",
              "a","g","e","n","c","i","e","s"," ","a","n","d"," ","c","o",
              "n","t","i","n","u","e","s"," ","t","o"," ","e","v","o","l",
              "v","e",".">>

\* The paragraphs generated from the title alone, tabulated once for the
\* topics of the model.
Templates ==
  [topic \in ArticleTopics |->
     [expanded_lead |-> generate_expanded_contextual_lead(topic),
      detailed_analysis |-> generate_expanded_detailed_analysis(topic),
      official_response |-> generate_expanded_official_response(topic),
      broader_context |-> generate_expanded_broader_context(topic),
      conclusion |-> generate_expanded_contextual_conclusion(topic),
      lead |-> generate_contextual_lead(topic)]]

\* generate_lead_section: the line it takes from website_content, if any
lead_content_of(content) ==
  LET lines == all_content_of(content)
      fit == {i \in DOMAIN lines :
                /\ Len(lines[i]) > 100
                /\ ~IsGeneric[lines[i]]}
  IN  IF fit = {}
      THEN << >>
      ELSE Truncate(lines[CHOOSE i \in fit : \A k \in fit : i <= k], 300)

generate_lead_section(topic, content) ==
  <<"<","p"," ","c","l","a","s","s","=","\"","l","e","a","d","-","p","a","r","a","g","r","a","p","h","\"",">">>
    \o html_escape(IF lead_content_of(content) # << >>
                   THEN lead_content_of(content)
                   ELSE Templates[topic].lead)
    \o <<"<","/","p",">">>

\* The variant of generate_authentic_news_content that leaves out a slot
\* for which the sources gave no usable text.
generate_authentic_news_content_sourced_only(topic, content, samples) ==
  LET key_details == extract_key_details(content)
      Usable(detail) == detail # None /\ ~IsFallback[detail]
  IN  (IF Usable(key_details.lead_info)
       THEN <<expand_paragraph(key_details.lead_info, "lead", samples[1])>>
       ELSE << >>)
      \o (IF Usable(key_details.background)
          THEN <<expand_paragraph(key_details.background, "background",
                                  samples[2])>>
          ELSE << >>)
      \o (IF Usable(key_details.additional_content)
          THEN <<expand_paragraph(key_details.additional_content, "details",
                                  samples[3])>>
          ELSE << >>)
      \o << Templates[topic].official_response,
            Templates[topic].broader_context,
            Templates[topic].conclusion >>

\* generate_authentic_news_content, with the samples its three calls of
\* expand_paragraph draw
generate_authentic_news_content(topic, content, samples) ==
  LET key_details == extract_key_details(content)
      Usable(detail) == detail # None /\ ~IsFallback[detail]
  IN  Take(<< IF Usable(key_details.lead_info)
              THEN expand_paragraph(key_details.lead_info, "lead", samples[1])
              ELSE Templates[topic].expanded_lead,
              IF Usable(key_details.background)
              THEN expand_paragraph(key_details.background, "background",
                                    samples[2])
              ELSE generate_expanded_contextual_background(topic, content),
              IF Usable(key_details.additional_content)
              THEN expand_paragraph(key_details.additional_content, "details",
                                    samples[3])
              ELSE Templates[topic].detailed_analysis,
              Templates[topic].official_response,
              Templates[topic].broader_context,
              Templates[topic].conclusion >>, 6)

\* create_structured_article: fallback_sources
fallback_sources ==
  << [url |-> <<"h","t","t","p","s",":","/","/","b","b","c",".","c","o","m","/","n","e","w","s">>,
      domain |-> <<"B","B","C"," ","N","e","w","s">>],
     [url |-> <<"h","t","t","p","s",":","/","/","r","e","u","t","e","r","s",".","c","o","m">>,
      domain |-> <<"R","e","u","t","e","r","s">>],
     [url |-> <<"h","t","t","p","s",":","/","/","a","p","n","e","w","s",".","c","o","m">>,
      domain |-> <<"A","s","s","o","c","i","a","t","e","d"," ","P","r","e","s","s">>] >>

\* create_structured_article: the source cards of the article
source_attribution(content) ==
  IF content # << >>
  THEN [i \in DOMAIN content |->
          [url |-> content[i].url, domain |-> content[i].domain]]
  ELSE fallback_sources

\* ------------------------------------------------------------------------
\* Processing one topic: SpecArticle
\* ------------------------------------------------------------------------

\* The extraction of this outcome found lines of the page itself.
ExtractedOutcomes ==
  {outcome \in FetchOutcomes :
     /\ outcome.kind = "page"
     /\ meaningful_lines(StrippedLines(outcome.lines), << >>) # << >>}

InitArticle ==
  /\ StartOfDayOne
  /\ nt_pc = "off"
  /\ nt_words = << >>
  /\ nt_key = << >>
  /\ nt_again = << >>
  /\ nt_variant = NoVariant
  /\ ar_pc = "topic"
  /\ ar_topic \in ArticleTopics
  /\ search_results = << >>
  /\ result_index = 1
  /\ fetch_outcomes = << >>
  /\ website_content = << >>
  /\ lead_section = << >>
  /\ news_paragraphs = << >>
  /\ source_cards = << >>
  /\ NoBackfill
  /\ NoPublish

\* gather_topic_research: search_results =
\* self.search_google_top_results(topic['search_query'])
gather_topic_research_search(outcome) ==
  /\ ar_pc = "topic"
  /\ search_results' = search_google_top_results(outcome, NumResults)
  /\ ar_pc' = IF search_google_top_results(outcome, NumResults) = << >>
              THEN "researched"
              ELSE "extract"
  /\ UNCHANGED <<main_vars, nt_vars, bf_vars, pub_vars,
                 ar_topic, result_index, fetch_outcomes,
                 website_content, lead_section, news_paragraphs,
                 source_cards>>

\* gather_topic_research: one turn of the loop over search_results
gather_topic_research_extract(outcome) ==
  /\ ar_pc = "extract"
  /\ LET result == search_results[result_index]
     IN  /\ website_content' =
              dict_set(website_content,
                       [url |-> result.url,
                        lines |->
                          ExtractedLines[ar_topic][result.url][outcome],
                        domain |-> result.domain])
         /\ fetch_outcomes' =
              Append(fetch_outcomes,
                     [domain |-> result.domain,
                      kind |-> outcome.kind,
                      extracted |-> outcome \in ExtractedOutcomes])
  /\ result_index' = result_index + 1
  /\ ar_pc' = IF result_index = Len(search_results)
              THEN "researched"
              ELSE "extract"
  /\ UNCHANGED <<main_vars, nt_vars, bf_vars, pub_vars,
                 ar_topic, search_results, lead_section,
                 news_paragraphs, source_cards>>

\* create_structured_article(topic, research_data, context): the lead
\* section, the paragraphs and the source cards it puts in the article
create_structured_article(samples) ==
  /\ ar_pc = "researched"
  /\ lead_section' = generate_lead_section(ar_topic, website_content)
  /\ news_paragraphs' =
       generate_authentic_news_content(ar_topic, website_content, samples)
  /\ source_cards' = source_attribution(website_content)
  /\ ar_pc' = "written"
  /\ UNCHANGED <<main_vars, nt_vars, bf_vars, pub_vars,
                 ar_topic, search_results, result_index,
                 fetch_outcomes, website_content>>

NextArticle ==
  \/ \E outcome \in SearchOutcomes : gather_topic_research_search(outcome)
  \/ \E outcome \in FetchOutcomes : gather_topic_research_extract(outcome)
  \/ \E samples \in [1..3 -> Samples] : create_structured_article(samples)

SpecArticle == InitArticle /\ [][NextArticle]_vars

\* ------------------------------------------------------------------------
\* Properties of the research and of the article
\* ------------------------------------------------------------------------

\* The fetch of every result so far failed to extract lines of a page.
AllExtractionsFailed ==
  \A i \in DOMAIN fetch_outcomes : ~fetch_outcomes[i].extracted

WellFormedExtract(lines) ==
  /\ Len(lines) \in 1..3
  /\ \A j \in DOMAIN lines : lines[j] # << >>

\* C12: whatever the search and the fetches did, gather_topic_research
\* comes to its end having processed every search result, and every domain
\* it processed has an entry in website_content whose extract is 1 to 3
\* lines, none of them empty.
ResearchWellFormed ==
  /\ \A k \in DOMAIN website_content :
       WellFormedExtract(website_content[k].lines)
  /\ \A i \in DOMAIN fetch_outcomes :
       \E k \in DOMAIN website_content :
         website_content[k].domain = fetch_outcomes[i].domain
  /\ ar_pc \in {"researched", "written"} =>
       Len(fetch_outcomes) = Len(search_results)

\* C12 witness: the research of a topic is complete although the three
\* fetches were a timeout, a response that is not HTML and a page with no
\* qualifying line.
ResearchedThroughFailures ==
  /\ ar_pc = "researched"
  /\ Len(fetch_outcomes) = 3
  /\ fetch_outcomes[1].kind = "timeout"
  /\ fetch_outcomes[2].kind = "not_html"
  /\ fetch_outcomes[3].kind = "page"
  /\ AllExtractionsFailed
  /\ Len(website_content) = 3

\* C13: a fetch that fails in any way (timeout, error status, network
\* error, no qualifying line, content that is not HTML) stores for the
\* domain the three lines of generate_fallback_content_for_topic for the
\* topic and the url.
FailureUsesCategoryFallback ==
  [][(ar_pc = "extract"
        /\ ~fetch_outcomes'[Len(fetch_outcomes')].extracted)
       => \E k \in DOMAIN website_content' :
            /\ website_content'[k].domain =
                 search_results[result_index].domain
            /\ website_content'[k].lines =
                 generate_fallback_content_for_topic(
                   search_results[result_index].url, ar_topic)]_vars

\* C14: the article has exactly six paragraphs, none empty: the lead, the
\* background and the details (each taken from the sources or from the
\* templates), then the official response, the broader context and the
\* conclusion.
SixParagraphs ==
  ar_pc = "written" =>
    LET key_details == extract_key_details(website_content)
    IN  /\ Len(news_paragraphs) = 6
        /\ \A i \in DOMAIN news_paragraphs : news_paragraphs[i] # << >>
        /\ \/ news_paragraphs[1] = Templates[ar_topic].expanded_lead
           \/ /\ key_details.lead_info # None
              /\ StartsWith(news_paragraphs[1], key_details.lead_info)
        /\ \/ news_paragraphs[2] =
                generate_expanded_contextual_background(
                  ar_topic, website_content)
           \/ /\ key_details.background # None
              /\ StartsWith(news_paragraphs[2], key_details.background)
        /\ \/ news_paragraphs[3] = Templates[ar_topic].detailed_analysis
           \/ /\ key_details.additional_content # None
              /\ StartsWith(news_paragraphs[3],
                            key_details.additional_content)
        /\ news_paragraphs[4] = Templates[ar_topic].official_response
        /\ news_paragraphs[5] = Templates[ar_topic].broader_context
        /\ news_paragraphs[6] = Templates[ar_topic].conclusion

\* C14 witness: an article written from a bundle made only of fallback
\* lines.
ArticleFromFallbackLinesOnly ==
  /\ ar_pc = "written"
  /\ website_content # << >>
  /\ AllExtractionsFailed
  /\ Len(news_paragraphs) = 6

\* C15: a line of the research that contains a fallback marker is in
\* neither rendering of the lead: not in the lead section and not at the
\* start of the first paragraph; when the line that would be the lead
\* contains a marker, both are the template of the category.
FallbackMarkerNeverInLead ==
  ar_pc = "written" =>
    /\ \A k \in DOMAIN website_content :
         \A j \in DOMAIN website_content[k].lines :
           IsFallback[website_content[k].lines[j]] =>
             /\ ~StartsWith(news_paragraphs[1], website_content[k].lines[j])
             /\ ~Contains(lead_section,
                          html_escape(website_content[k].lines[j]))
    /\ (/\ lead_content_of(website_content) # << >>
        /\ IsFallback[lead_content_of(website_content)]) =>
         /\ news_paragraphs[1] = Templates[ar_topic].expanded_lead
         /\ Contains(lead_section, html_escape(Templates[ar_topic].lead))

\* C16: the sources listed are the domains whose extract was really taken
\* from a page, one entry each; when there is none (every fetch failed, or
\* there was nothing to fetch) they are the three static fallback sources.
AttributionOnlyUsableSources ==
  ar_pc = "written" =>
    LET usable ==
          {d \in {fetch_outcomes[i].domain : i \in DOMAIN fetch_outcomes} :
             LET last == CHOOSE i \in DOMAIN fetch_outcomes :
                           /\ fetch_outcomes[i].domain = d
                           /\ \A k \in DOMAIN fetch_outcomes :
                                fetch_outcomes[k].domain = d => k <= i
             IN  fetch_outcomes[last].extracted}
    IN  IF usable = {}
        THEN source_cards = fallback_sources /\ Len(source_cards) >= 3
        ELSE /\ {source_cards[i].domain : i \in DOMAIN source_cards} = usable
             /\ Len(source_cards) = Cardinality(usable)

\* ------------------------------------------------------------------------
\* fetch_all_dates of history-automate.py (history-automation.py holds the
\* same function): the backfill of the whole archive
\* ------------------------------------------------------------------------

\* The months of the year the model goes through (the code: 12).
MaxMonth == 2

\* "if total_dates % 20 == 0": the period of the checkpoint
SaveEvery == 20

days_in_month ==
  [month \in 1..12 |->
     CASE month \in {4, 6, 9, 11} -> 30
       [] month = 2 -> 29
       [] OTHER -> 31]

\* The dates in the order of the two loops of the first pass. A date is
\* <<month, day>>; date_key = f"{month:02d}-{day:02d}" names it one to one.
AllDates ==
  LET upto[month \in 0..MaxMonth] ==
        IF month = 0
        THEN << >>
        ELSE upto[month - 1]
               \o [day \in 1..days_in_month[month] |-> <<month, day>>]
  IN  upto[MaxMonth]

\* What on_this_day_data.json may hold before the run: the dates the daily
\* update stored, each with its 'data'.
StoredBefore == SUBSET {<<1, 3>>, <<1, SaveEvery>>}

\* What requests.get and the status code give fetch_single_date, and the
\* dates for which the service does not always answer with status 200.
FetchStatuses == {"ok", "http_error", "timeout"}

FailingDates == {<<1, 7>>, <<1, SaveEvery + 1>>, <<MaxMonth, 11>>}

\* fetch_single_date(month, day, attempt): status 200 stores the date in
\* cached_data and returns True; everything else returns False.
fetch_single_date_unstored(cached, date, status) == cached

fetch_single_date(cached, date, status) ==
  IF status = "ok" THEN cached \cup {date} ELSE cached

\* cached_data = load_cached_data(); total_dates = 0; fetched_count = 0;
\* failed_dates = []
InitBackfill ==
  /\ StartOfDayOne
  /\ nt_pc = "off"
  /\ nt_words = << >>
  /\ nt_key = << >>
  /\ nt_again = << >>
  /\ nt_variant = NoVariant
  /\ NoArticle
  /\ NoPublish
  /\ bf_pc = "first"
  /\ data_file \in StoredBefore
  /\ cached_data = data_file
  /\ total_dates = 0
  /\ fetched_count = 0
  /\ failed_dates = << >>
  /\ retry_dates = << >>
  /\ requests = [date \in Range(AllDates) |-> << >>]

\* One turn of the loops of the first pass. A cached date is counted and
\* skipped ("continue"); another is fetched, and after it the checkpoint
\* "if total_dates % 20 == 0: save_cached_data(cached_data)" is reached.
\* saved is what save_cached_data returns; the code does not look at it.
\* After the last date, "if retry_failed and failed_dates" chooses between
\* the retry pass and the final save; retry_failed is True at the call.
first_pass(status, saved) ==
  /\ bf_pc = "first"
  /\ LET date == AllDates[total_dates + 1]
         failed == IF date \in cached_data \/ status = "ok"
                   THEN failed_dates
                   ELSE Append(failed_dates, <<date[1], date[2], status>>)
         data == fetch_single_date(cached_data, date, status)
     IN  /\ status = "ok" \/ date \in FailingDates
         /\ total_dates' = total_dates + 1
         /\ failed_dates' = failed
         /\ IF date \in cached_data
            THEN /\ fetched_count' = fetched_count + 1
                 /\ UNCHANGED <<cached_data, data_file, requests>>
            ELSE /\ cached_data' = data
                 /\ fetched_count' =
                      IF status = "ok" THEN fetched_count + 1
                                       ELSE fetched_count
                 /\ requests' =
                      [requests EXCEPT ![date] = Append(@, status)]
                 /\ data_file' =
                      IF (total_dates + 1) % SaveEvery = 0 /\ saved
                      THEN data
                      ELSE data_file
         /\ IF total_dates + 1 < Len(AllDates)
            THEN /\ bf_pc' = "first"
                 /\ UNCHANGED retry_dates
            ELSE /\ bf_pc' = IF failed = << >> THEN "save" ELSE "retry"
                 /\ retry_dates' = failed
  /\ UNCHANGED <<main_vars, nt_vars, art_vars, pub_vars>>

\* One turn of "for month, day, original_error in failed_dates[:]": the
\* second request for a date, which leaves failed_dates when it succeeds.
retry_pass(status) ==
  /\ bf_pc = "retry"
  /\ LET entry == Head(retry_dates)
         date == <<entry[1], entry[2]>>
     IN  /\ status = "ok" \/ date \in FailingDates
         /\ cached_data' = fetch_single_date(cached_data, date, status)
         /\ requests' = [requests EXCEPT ![date] = Append(@, status)]
         /\ fetched_count' =
              IF status = "ok" THEN fetched_count + 1 ELSE fetched_count
         /\ failed_dates' =
              IF status = "ok"
              THEN LET first ==
                         CHOOSE i \in DOMAIN failed_dates :
                           /\ failed_dates[i] = entry
                           /\ \A j \in 1..(i - 1) : failed_dates[j] # entry
                   IN  SubSeq(failed_dates, 1, first - 1)
                         \o SubSeq(failed_dates, first + 1,
                                   Len(failed_dates))
              ELSE failed_dates
  /\ retry_dates' = Tail(retry_dates)
  /\ bf_pc' = IF Tail(retry_dates) = << >> THEN "save" ELSE "retry"
  /\ UNCHANGED <<data_file, total_dates, main_vars, nt_vars, art_vars,
                 pub_vars>>

\* "Final save": if save_cached_data(cached_data): ... else: return False
final_save(saved) ==
  /\ bf_pc = "save"
  /\ data_file' = IF saved THEN cached_data ELSE data_file
  /\ bf_pc' = "done"
  /\ UNCHANGED <<cached_data, total_dates, fetched_count, failed_dates,
                 retry_dates, requests, main_vars, nt_vars, art_vars,
                 pub_vars>>

NextBackfill ==
  \/ \E status \in FetchStatuses, saved \in BOOLEAN :
       first_pass(status, saved)
  \/ \E status \in FetchStatuses : retry_pass(status)
  \/ \E saved \in BOOLEAN : final_save(saved)

SpecBackfill == InitBackfill /\ [][NextBackfill]_vars

\* C21: in every state of the backfill, those where dates were cached
\* before the run and those of the retry pass included, at most 20 of the
\* dates fetched are not yet in the saved file.
LossBoundedByCheckpoint ==
  bf_pc \in {"first", "retry", "save"}
    => Cardinality(cached_data \ data_file) <= SaveEvery

\* C22: no date is requested more than twice; a date is requested a second
\* time only when its first request failed and only when every date has
\* been gone through; a date whose second request succeeded is in
\* cached_data and no longer in failed_dates.
SingleSecondPass ==
  \A date \in Range(AllDates) :
    /\ Len(requests[date]) <= 2
    /\ Len(requests[date]) = 2 =>
         /\ requests[date][1] # "ok"
         /\ bf_pc \in {"retry", "save", "done"}
         /\ total_dates = Len(AllDates)
         /\ requests[date][2] = "ok" =>
              /\ date \in cached_data
              /\ \A i \in DOMAIN failed_dates :
                   <<failed_dates[i][1], failed_dates[i][2]>> # date

\* A run is over in which a date failed at first and succeeded on retry.
RetriedDateStored ==
  /\ bf_pc = "done"
  /\ \E date \in Range(AllDates) :
       /\ Len(requests[date]) = 2
       /\ requests[date][2] = "ok"
       /\ date \in data_file

\* ------------------------------------------------------------------------
\* run_hourly_generation and the posts directory: the documents written,
\* the listing of index.html and the removal of old documents
\* ------------------------------------------------------------------------

\* The runs the model follows.
MaxRuns == 2

\* "cutoff_time = datetime.now() - timedelta(hours=24)"
RetentionHours == 24

\* "unique_posts = unique_posts[:10]"
IndexLimit == 10

\* A document of posts_dir: its filename, here the title and the time of
\* f"{clean_filename(title)}_{timestamp.strftime('%Y%m%d_%H%M')}.html",
\* and os.path.getctime of the file, in hours.
Post(title, hour) == [filename |-> <<title, hour>>, ctime |-> hour]

\* What the posts directory may hold before the first run: a document of
\* the day before and one of the hour before.
PostsBefore ==
  SUBSET {Post(all_fallback_topics[11], 0 - RetentionHours - 1),
          Post(all_fallback_topics[12], 0 - 1)}

\* The hours that may pass between two runs.
Pauses == {1, RetentionHours + 1}

\* topics = self.get_trending_topics(num_topics): here no topic or the
\* first num_topics fallback topics.
InitPublish ==
  /\ StartOfDayOne
  /\ nt_pc = "off"
  /\ nt_words = << >>
  /\ nt_key = << >>
  /\ nt_again = << >>
  /\ nt_variant = NoVariant
  /\ NoArticle
  /\ NoBackfill
  /\ pb_pc = "topics"
  /\ now = 0
  /\ posts_dir \in PostsBefore
  /\ index_listing = {}
  /\ pb_topics \in {Take(all_fallback_topics, n) : n \in {0, NumTopics}}
  /\ pb_new_posts = << >>
  /\ pb_run = 1

\* get_all_posts_metadata, the sort by timestamp, newest first, and
\* unique_posts[:10]: the filenames update_index_html may list. Documents
\* of the same ctime come in the order of os.listdir, which is any order.
listed_posts(dir) ==
  {{post.filename : post \in listed} :
     listed \in
       {posts \in SUBSET dir :
          /\ Cardinality(posts) =
               IF Cardinality(dir) < IndexLimit THEN Cardinality(dir)
                                                ELSE IndexLimit
          /\ \A post \in posts :
               \A other \in dir \ posts : post.ctime >= other.ctime}}

\* "if not topics: self.update_index_html([]); return []"
no_topics_run ==
  /\ pb_pc = "topics"
  /\ pb_topics = << >>
  /\ pb_new_posts = << >>
  /\ index_listing' \in listed_posts(posts_dir)
  /\ pb_pc' = "done"
  /\ UNCHANGED <<now, posts_dir, pb_topics, pb_new_posts, pb_run,
                 main_vars, nt_vars, art_vars, bf_vars>>

\* One turn of "for topic in topics": generate_html_post writes the
\* document and the post is appended to new_posts, or the body of the try
\* raises before that and the loop continues.
process_topic(raised) ==
  /\ pb_pc = "topics"
  /\ pb_topics # << >>
  /\ IF raised
     THEN UNCHANGED <<posts_dir, pb_new_posts>>
     ELSE /\ posts_dir' =
               {post \in posts_dir :
                  post.filename # <<Head(pb_topics), now>>}
                 \cup {Post(Head(pb_topics), now)}
          /\ pb_new_posts' = Append(pb_new_posts, <<Head(pb_topics), now>>)
  /\ pb_topics' = Tail(pb_topics)
  /\ pb_pc' = IF Tail(pb_topics) = << >> THEN "index" ELSE "topics"
  /\ UNCHANGED <<now, index_listing, pb_run, main_vars, nt_vars, art_vars,
                 bf_vars>>

\* self.update_index_html(new_posts)
update_index_html ==
  /\ pb_pc = "index"
  /\ index_listing' \in listed_posts(posts_dir)
  /\ pb_pc' = "metadata"
  /\ UNCHANGED <<now, posts_dir, pb_topics, pb_new_posts, pb_run,
                 main_vars, nt_vars, art_vars, bf_vars>>

\* self.update_site_metadata(new_posts): every document whose ctime is
\* before the cutoff is removed.
update_site_metadata ==
  /\ pb_pc = "metadata"
  /\ posts_dir' =
       {post \in posts_dir : ~(post.ctime < now - RetentionHours)}
  /\ pb_pc' = "done"
  /\ UNCHANGED <<now, index_listing, pb_topics, pb_new_posts, pb_run,
                 main_vars, nt_vars, art_vars, bf_vars>>

\* The next run, some hours later, with its own selection.
next_run(pause, n) ==
  /\ pb_pc = "done"
  /\ pb_run < MaxRuns
  /\ pb_run' = pb_run + 1
  /\ now' = now + pause
  /\ pb_topics' = Take(all_fallback_topics, n)
  /\ pb_new_posts' = << >>
  /\ pb_pc' = "topics"
  /\ UNCHANGED <<posts_dir, index_listing, main_vars, nt_vars, art_vars,
                 bf_vars>>

NextPublish ==
  \/ no_topics_run
  \/ \E raised \in BOOLEAN : process_topic(raised)
  \/ update_index_html
  \/ update_site_metadata
  \/ \E pause \in Pauses, n \in {0, NumTopics} : next_run(pause, n)

SpecPublish == InitPublish /\ [][NextPublish]_vars

\* C24: when a run is over, no document of the posts directory is older
\* than the retention window of 24 hours, also when the selection returned
\* no topic.
EveryRunPrunes ==
  pb_pc = "done" =>
    \A post \in posts_dir : ~(post.ctime < now - RetentionHours)

\* C30: when a run is over, every document the index lists is in the posts
\* directory.
ListedDocumentsExist ==
  pb_pc = "done" =>
    index_listing \subseteq {post.filename : post \in posts_dir}

\* ------------------------------------------------------------------------
\* The external calls of a run and their timeouts
\* ------------------------------------------------------------------------

\* feedparser.parse(feed_url) is called without a timeout (three places:
\* get_google_trends_rss, get_news_trending_topics and
\* get_expanded_news_topics) and the module sets no default socket timeout:
\* when the server accepts the connection and never answers, the call does
\* not return. The Reddit fetch, the page fetch and the summary fetch pass
\* timeout= to requests.get.
feed_never_answers ==
  /\ pc \in {"google", "news", "expanded"}
  /\ pc' = "blocked"
  /\ UNCHANGED <<today, daily_topics_file, run_vars, nt_vars, art_vars,
                 bf_vars, pub_vars>>

NextUnanswered ==
  \/ Next
  \/ feed_never_answers

\* The run is one sequential process: a statement that can be executed is
\* executed.
SpecUnanswered ==
  Init /\ [][NextUnanswered]_vars /\ WF_vars(NextUnanswered)

\* C23: whatever the external services do, a run that has started its
\* selection comes to its end.
RunTerminates == (pc = "google") ~> (pc \in {"done", "crashed"})

\* ------------------------------------------------------------------------
\* The time of the write of the ledger
\* ------------------------------------------------------------------------

\* C25: within a run the ledger file is written only by the step that ends
\* the run, after the selected topics have been processed: no key of a
\* selected topic is in the file while its article is still to be made.
LedgerWrittenAfterProcessing ==
  [][(pc # "idle" /\ daily_topics_file' # daily_topics_file)
       => pc' = "done"]_vars

\* ------------------------------------------------------------------------
\* Properties of the choice of sourced lines and of the categories
\* ------------------------------------------------------------------------

\* The lines of all_content that qualify for a slot and are no shorter than
\* any other line that qualifies.
LongestQualifying(all_content, min_len) ==
  LET fit == {i \in DOMAIN all_content :
                /\ Len(all_content[i]) > min_len
                /\ ~IsGeneric[all_content[i]]}
  IN  {all_content[i] : i \in {k \in fit :
         \A j \in fit : Len(all_content[j]) <= Len(all_content[k])}}

\* C26: the line extract_key_details takes for a slot is a longest one
\* among the lines that qualify for the slot (longer than the minimum of
\* the slot and not boilerplate): for the lead among all lines of all
\* extracts, for the background among the lines after the first and for
\* the detailed analysis among the lines after the second, which are the
\* lines the code goes through for these slots.
LongestLineChosen ==
  ar_pc = "written" =>
    LET all_content == all_content_of(website_content)
        details == extract_key_details(website_content)
    IN  /\ details.lead_info # None =>
             \E line \in LongestQualifying(all_content, 100) :
               details.lead_info = Truncate(line, 400)
        /\ details.background # None =>
             \E line \in LongestQualifying(Tail(all_content), 80) :
               details.background = Truncate(line, 350)
        /\ details.additional_content # None =>
             \E line \in LongestQualifying(Tail(Tail(all_content)), 80) :
               details.additional_content = Truncate(line, 300)

\* The first three lines of a page, stripped, whose length is from 30 to 500
\* and that hold no skip keyword, each cut as the code cuts it.
FirstInClosedRange ==
  [page \in Pages |->
     LET fit == SelectSeq(StrippedLines(page),
                          LAMBDA line :
                            /\ Len(line) >= 30
                            /\ Len(line) <= 500
                            /\ ~ContainsAny(str_lower(line), skip_keywords))
     IN  [i \in 1..(IF Len(fit) < 3 THEN Len(fit) ELSE 3) |->
            Take(fit[i], 300)]]

\* C27: for a fetched page that has such lines, the extract stored for the
\* domain is the first (up to) three lines of the page whose length is in
\* the closed range from 30 to 500 and that hold no skip keyword.
FirstThreeInClosedRange ==
  [][\A outcome \in FetchOutcomes :
       (/\ outcome.kind = "page"
        /\ FirstInClosedRange[outcome.lines] # << >>
        /\ gather_topic_research_extract(outcome))
         => \E k \in DOMAIN website_content' :
              /\ website_content'[k].domain =
                   search_results[result_index].domain
              /\ website_content'[k].lines =
                   FirstInClosedRange[outcome.lines]]_vars

\* The category a text of the fallback generator, of the expanded lead or
\* of the detailed analysis belongs to, told by the words it begins with.
CategoryOfText(text) ==
  CASE \/ StartsWith(text, <<"A","u","t","h","o","r","i","t","i","e","s"," ","a","r","e"," ","i","n","v","e","s","t","i","g","a","t","i","n","g">>)
       \/ StartsWith(text, <<"L","a","w"," ","e","n","f","o","r","c","e","m","e","n","t"," ","o","f","f","i","c","i","a","l","s"," ","a","r","e"," ","i","n","v","e","s","t","i","g","a","t","i","n","g">>)
       \/ StartsWith(text, <<"T","h","e"," ","i","n","v","e","s","t","i","g","a","t","i","o","n"," ","i","n","v","o","l","v","e","s">>)
         -> "enforcement"
    [] \/ StartsWith(text, <<"M","u","l","t","i","p","l","e"," ","f","a","t","a","l","i","t","i","e","s"," ","h","a","v","e"," ","b","e","e","n">>)
       \/ StartsWith(text, <<"E","m","e","r","g","e","n","c","y"," ","m","e","d","i","c","a","l"," ","s","e","r","v","i","c","e","s"," ","a","r","r","i","v","e","d">>)
         -> "casualty"
    [] \/ StartsWith(text, <<"G","o","v","e","r","n","m","e","n","t"," ","o","f","f","i","c","i","a","l","s"," ","h","a","v","e"," ","a","n","n","o","u","n","c","e","d">>)
       \/ StartsWith(text, <<"S","e","n","i","o","r"," ","g","o","v","e","r","n","m","e","n","t"," ","o","f","f","i","c","i","a","l","s">>)
       \/ StartsWith(text, <<"T","h","e"," ","p","o","l","i","c","y"," ","c","h","a","n","g","e","s"," ","c","o","m","e">>)
         -> "government"
    [] \/ StartsWith(text, <<"L","e","g","a","l"," ","p","r","o","c","e","e","d","i","n","g","s"," ","a","r","e">>)
         -> "judicial"
    [] OTHER -> "default"

\* What generate_fallback_content_for_topic gives for the topic: the lines
\* stored when the fetch of a result ends with an error status.
FallbackLinesOfTopic ==
  ExtractedLines[ar_topic][CHOOSE url \in SearchUrls : TRUE]
                [[kind |-> "http_error", lines |-> << >>]]

\* C28: for the title of the topic, the category of the expanded lead and
\* the category of the detailed analysis are the category of the fallback
\* lines of the research.
SameCategoryHeuristic ==
  ar_pc = "written" =>
    /\ CategoryOfText(Templates[ar_topic].expanded_lead)
         = CategoryOfText(FallbackLinesOfTopic[1])
    /\ CategoryOfText(Templates[ar_topic].detailed_analysis)
         = CategoryOfText(FallbackLinesOfTopic[1])

\* C29: a line that is not taken from a page is too short for a sourced
\* slot or is recognised by is_fallback_content, and an article whose
\* research holds such lines only has the templates as its paragraphs 1, 2
\* and 3.
SyntheticNeverSourced ==
  (ar_pc = "written" /\ AllExtractionsFailed) =>
    /\ \A k \in DOMAIN website_content :
         \A j \in DOMAIN website_content[k].lines :
           \/ Len(website_content[k].lines[j]) <= 80
           \/ IsFallback[website_content[k].lines[j]]
    /\ news_paragraphs[1] = Templates[ar_topic].expanded_lead
    /\ news_paragraphs[2] =
         generate_expanded_contextual_background(ar_topic, website_content)
    /\ news_paragraphs[3] = Templates[ar_topic].detailed_analysis

====
